---- MODULE Spec2Model ----
(***************************************************************************)
(* SignalDock: the pipeline executor (backend/pipeline/executor.py), its   *)
(* execution policies (backend/pipeline/policies.py), filters and          *)
(* transformers, as a state machine.                                       *)
(*                                                                         *)
(* The executor runs on one asyncio event loop.  A coroutine runs without  *)
(* interruption between two suspension points, so one action of the model  *)
(* is one such segment of a process_event call, or one synchronous call    *)
(* (load_pipeline, unload_pipeline, set_pipeline_active).                  *)
(***************************************************************************)
EXTENDS Integers, Sequences, FiniteSets, TLC

(***************************************************************************)
(* Bounds                                                                  *)
(***************************************************************************)
MaxTasks == 2      \* concurrent process_event calls (one per producing source)
MaxEvents == 2     \* events emitted in one behaviour
MaxObjs == 2       \* Pipeline objects constructed in one behaviour
MaxTime == 3       \* last clock value
VisitCap == 2      \* visit counters saturate here ("twice or more")
MaxProducerTasks == 2   \* _run_loop tasks created by start()
MaxPolls == 2      \* events returned by _poll
MaxPollErrors == 1 \* _poll calls that raise
MaxDebounceCalls == 3   \* should_execute calls made with a callback
MaxBroadcasts == 2      \* broadcast calls made in one behaviour
MaxMessages == 2        \* messages received from one client
MaxSockets == 2         \* WebSocket connections made to the endpoint

Tasks == 1..MaxTasks
PipelineIds == {1, 2}
SourceTypes == {"cpu", "battery"}
Samples == {50, 95}          \* data.cpu_percent carried by an event
NoneVal == -1                \* Python None
NoObj == 0                   \* pipelines.get(id) is None

(***************************************************************************)
(* Node and graph configurations (the nodes / edges lists of load_pipeline)*)
(***************************************************************************)
NoPolicyCfg == [type |-> "none", c |-> 0, n |-> 0, w |-> 0, d |-> 0]
CooldownCfg(c) == [type |-> "cooldown", c |-> c, n |-> 0, w |-> 0, d |-> 0]
RateLimitCfg(n, w) == [type |-> "rate_limit", c |-> 0, n |-> n, w |-> w, d |-> 0]
DebounceCfg(d) == [type |-> "debounce", c |-> 0, n |-> 0, w |-> 0, d |-> d]
BogusPolicyCfg == [type |-> "bogus", c |-> 0, n |-> 0, w |-> 0, d |-> 0]

NodeCfg(id, type) ==
  [id |-> id, type |-> type, source_type |-> "",
   ftype |-> "", composite_operator |-> "", field |-> <<>>, op |-> "", value |-> NoneVal,
   ttype |-> "", operand |-> 0, output_key |-> "",
   action_type |-> "", policy |-> NoPolicyCfg]

SourceNode(id, st) == [NodeCfg(id, "source") EXCEPT !.source_type = st]
FilterNode(id, ftype, field, op, value) ==
  [NodeCfg(id, "filter") EXCEPT !.ftype = ftype, !.field = field, !.op = op, !.value = value]
\* a composite filter with one child, a boolean filter
CompositeNode(id, operator, field, op, value) ==
  [FilterNode(id, "composite", field, op, value) EXCEPT !.composite_operator = operator]
MathNode(id, ttype, field, operand) ==
  [NodeCfg(id, "transformer") EXCEPT !.ttype = ttype, !.field = field, !.op = "add",
                                     !.operand = operand, !.output_key = "x"]
ActionNode(id, atype, policy) ==
  [NodeCfg(id, "action") EXCEPT !.action_type = atype, !.policy = policy]

CooldownSeconds == 2
RateMax == 1
RateWindow == 2
DebounceDelay == 2

\* source(cpu) -> filter(cpu_percent > 80) -> action(notification)
FilterGraph ==
  [nodes |-> << SourceNode("s1", "cpu"),
                FilterNode("f", "boolean", <<"cpu_percent">>, ">", 80),
                ActionNode("a", "notification", NoPolicyCfg) >>,
   edges |-> << <<"s1", "f">>, <<"f", "a">> >>]

\* source -> {t1: x = cpu_percent + 1, t2: x = cpu_percent + 2} -> the same action
DiamondGraph ==
  [nodes |-> << SourceNode("s1", "cpu"),
                MathNode("t1", "math", <<"data", "cpu_percent">>, 1),
                MathNode("t2", "math", <<"data", "cpu_percent">>, 2),
                ActionNode("a", "notification", NoPolicyCfg) >>,
   edges |-> << <<"s1", "t1">>, <<"s1", "t2">>, <<"t1", "a">>, <<"t2", "a">> >>]

\* source -> filter f -> filter g -> back to f
CycleGraph ==
  [nodes |-> << SourceNode("s1", "cpu"),
                FilterNode("f", "boolean", <<"cpu_percent">>, ">", 80),
                FilterNode("g", "boolean", <<"cpu_percent">>, "is_not_null", NoneVal) >>,
   edges |-> << <<"s1", "f">>, <<"f", "g">>, <<"g", "f">> >>]

\* two entry points of the same type and one of another type, one action
TwoSourceGraph ==
  [nodes |-> << SourceNode("s1", "cpu"), SourceNode("s2", "cpu"),
                SourceNode("s3", "battery"),
                ActionNode("a", "shell", NoPolicyCfg) >>,
   edges |-> << <<"s1", "a">>, <<"s2", "a">>, <<"s3", "a">> >>]

\* a battery-only pipeline
BatteryGraph ==
  [nodes |-> << SourceNode("s3", "battery"),
                ActionNode("a", "notification", NoPolicyCfg) >>,
   edges |-> << <<"s3", "a">> >>]

\* configuration errors: unknown filter type, unknown action type, edge to a
\* node id that does not exist
BadGraph ==
  [nodes |-> << SourceNode("s1", "cpu"),
                FilterNode("f", "bogus", <<"cpu_percent">>, ">", 80),
                ActionNode("a", "bogus", NoPolicyCfg) >>,
   edges |-> << <<"s1", "f">>, <<"f", "a">>, <<"a", "zz">> >>]

\* cpu and battery sources feeding one action behind a policy
PolicyGraph(policy) ==
  [nodes |-> << SourceNode("s1", "cpu"), SourceNode("s3", "battery"),
                ActionNode("a", "shell", policy) >>,
   edges |-> << <<"s1", "a">>, <<"s3", "a">> >>]

\* two entry points of one type; an action followed by another action
ChainGraph ==
  [nodes |-> << SourceNode("s1", "cpu"), SourceNode("s2", "cpu"),
                ActionNode("a", "shell", NoPolicyCfg),
                ActionNode("b", "notification", NoPolicyCfg) >>,
   edges |-> << <<"s1", "a">>, <<"a", "b">>, <<"s2", "b">> >>]

\* components whose evaluation raises: float() of the data dict in a boolean
\* filter, in the child of a NOT filter and in a math transformer
ErrorGraph ==
  [nodes |-> << SourceNode("s1", "cpu"),
                FilterNode("f", "boolean", <<"data">>, ">", 80),
                CompositeNode("g", "not", <<"data">>, ">", 80),
                MathNode("t1", "math", <<"data">>, 1),
                ActionNode("a", "notification", NoPolicyCfg),
                ActionNode("b", "notification", NoPolicyCfg) >>,
   edges |-> << <<"s1", "f">>, <<"s1", "g">>, <<"s1", "t1">>,
                <<"f", "a">>, <<"g", "b">>, <<"t1", "a">> >>]

\* one source feeding two action nodes, each behind its own policy
TwoActionGraph ==
  [nodes |-> << SourceNode("s1", "cpu"),
                ActionNode("a", "shell", CooldownCfg(CooldownSeconds)),
                ActionNode("b", "notification", RateLimitCfg(RateMax, RateWindow)) >>,
   edges |-> << <<"s1", "a">>, <<"s1", "b">> >>]

\* an action behind a cooldown with a successor, beside an action behind a
\* rate limit
GatedGraph ==
  [nodes |-> << SourceNode("s1", "cpu"),
                ActionNode("a", "shell", CooldownCfg(CooldownSeconds)),
                ActionNode("b", "notification", RateLimitCfg(RateMax, RateWindow)),
                ActionNode("g", "notification", NoPolicyCfg) >>,
   edges |-> << <<"s1", "a">>, <<"s1", "b">>, <<"a", "g">> >>]

CooldownGraph == PolicyGraph(CooldownCfg(CooldownSeconds))
RateLimitGraph == PolicyGraph(RateLimitCfg(RateMax, RateWindow))
DebounceGraph == PolicyGraph(DebounceCfg(DebounceDelay))

Graphs ==
  [filter |-> FilterGraph, diamond |-> DiamondGraph, cycle |-> CycleGraph,
   twosrc |-> TwoSourceGraph, battery |-> BatteryGraph, bad |-> BadGraph,
   cooldown |-> CooldownGraph, ratelimit |-> RateLimitGraph,
   debounce |-> DebounceGraph, twoact |-> TwoActionGraph, chain |-> ChainGraph,
   errors |-> ErrorGraph, gated |-> GatedGraph]

GraphNames == DOMAIN Graphs

NodeIds == {"s1", "s2", "s3", "f", "g", "t1", "t2", "a", "b"}

(***************************************************************************)
(* Registries and component construction                                   *)
(***************************************************************************)
FILTER_TYPES == {"boolean", "time_window", "composite"}
TRANSFORMER_TYPES == {"passthrough", "extract_field", "format_string", "math", "json_path"}
ACTION_TYPES == {"notification", "shell", "file_operation", "process_control", "network_control"}
\* the types ExecutionPolicy.from_config accepts
from_config_types == {"none", "debounce", "rate_limit", "cooldown", "conditional"}

\* PipelineNode._initialize_component: an exception of a factory is logged and
\* swallowed, the component it was building stays None.
HasFilter(node) == node.type = "filter" /\ node.ftype \in FILTER_TYPES
HasTransformer(node) == node.type = "transformer" /\ node.ttype \in TRANSFORMER_TYPES
HasAction(node) == node.type = "action" /\ node.action_type \in ACTION_TYPES
HasPolicy(node) == HasAction(node) /\ node.policy.type \in from_config_types

\* Pipeline.__init__: self.nodes, by id, in insertion order
NodeIndex(g, id) ==
  IF \E i \in 1..Len(g.nodes) : g.nodes[i].id = id
  THEN CHOOSE i \in 1..Len(g.nodes) : g.nodes[i].id = id
  ELSE 0

HasNode(g, id) == NodeIndex(g, id) # 0
GetNode(g, id) == g.nodes[NodeIndex(g, id)]
GraphNodeIds(g) == {g.nodes[i].id : i \in 1..Len(g.nodes)}

RECURSIVE SelectEdges(_, _, _)
\* Pipeline.__init__: adjacency[id], the targets of id's edges in edge order
SelectEdges(edges, id, i) ==
  IF i > Len(edges) THEN <<>>
  ELSE IF edges[i][1] = id
       THEN <<edges[i][2]>> \o SelectEdges(edges, id, i + 1)
       ELSE SelectEdges(edges, id, i + 1)

Adjacency(g, id) == SelectEdges(g.edges, id, 1)

RECURSIVE KeepExisting(_, _, _)
KeepExisting(g, ids, i) ==
  IF i > Len(ids) THEN <<>>
  ELSE IF HasNode(g, ids[i])
       THEN <<ids[i]>> \o KeepExisting(g, ids, i + 1)
       ELSE KeepExisting(g, ids, i + 1)

\* Pipeline.get_connected_nodes
get_connected_nodes(g, id) == KeepExisting(g, Adjacency(g, id), 1)

RECURSIVE SourceNodesFrom(_, _)
SourceNodesFrom(g, i) ==
  IF i > Len(g.nodes) THEN <<>>
  ELSE IF g.nodes[i].type = "source"
       THEN <<g.nodes[i].id>> \o SourceNodesFrom(g, i + 1)
       ELSE SourceNodesFrom(g, i + 1)

\* Pipeline.get_source_nodes
get_source_nodes(g) == SourceNodesFrom(g, 1)


(***************************************************************************)
(* Payloads.  A payload is the top-level dict of one queue entry; its      *)
(* "data" entry is a reference to the event's data dict, which lives in    *)
(* heap.  to_dict builds a new top-level dict around the event's own data  *)
(* dict, dict.copy() copies the top level only.                            *)
(***************************************************************************)
EventIds == 1..MaxEvents
DictVal == -3                \* a value that is a dict, where a scalar is expected
BadRegex == -4               \* a string that re cannot compile, such as "["
EmptyData == [cpu_percent |-> NoneVal, x |-> NoneVal]

\* SignalEvent.to_dict
to_dict(ev) == [x |-> NoneVal, data |-> ev]

\* dict.copy()
copy(payload) == [x |-> payload.x, data |-> payload.data]

\* dict.get(key) on an event's data dict
DataGet(d, key) ==
  IF key = "cpu_percent" THEN d.cpu_percent
  ELSE IF key = "x" THEN d.x
  ELSE NoneVal

\* _resolve_path / the transformers' _get_nested_value: dot path from the root
ResolvePath(hp, payload, path) ==
  IF Len(path) = 1
  THEN IF path[1] = "x" THEN payload.x
       ELSE IF path[1] = "data" THEN DictVal
       ELSE NoneVal
  ELSE IF Len(path) = 2 /\ path[1] = "data"
       THEN DataGet(hp[payload.data], path[2])
       ELSE NoneVal

\* BooleanFilter._get_nested_value: the root first, then below "data"
FilterGetNestedValue(hp, payload, path) ==
  LET value == ResolvePath(hp, payload, path) IN
  IF value = NoneVal
  THEN IF Len(path) = 1 THEN DataGet(hp[payload.data], path[1]) ELSE NoneVal
  ELSE value

UnaryOps == {"is_null", "is_not_null", "is_true", "is_false"}
NumericOps == {">", "<", ">=", "<="}
OPERATORS == UnaryOps \cup NumericOps \cup {"==", "!=", "matches"}

OpFunc(op, a, b) ==
  CASE op = ">" -> a > b
    [] op = "<" -> a < b
    [] op = ">=" -> a >= b
    [] op = "<=" -> a <= b
    [] op = "==" -> a = b
    [] op = "!=" -> a # b
    [] op = "is_null" -> a = NoneVal
    [] op = "is_not_null" -> a # NoneVal
    [] op = "is_true" -> a \notin {NoneVal, 0}
    [] op = "is_false" -> a \in {NoneVal, 0}
    [] op = "matches" -> a = b    \* a pattern without metacharacters
    [] OTHER -> FALSE

\* does the operator's lambda raise: float() of a dict or of a string that is
\* not a number, re.match of a pattern that does not compile
OpRaises(op, a, b) ==
  \/ op \in NumericOps /\ ({a, b} \cap {DictVal, BadRegex} # {})
  \/ op = "matches" /\ b = BadRegex

\* BooleanFilter.evaluate once the field value is known; an exception of the
\* operator is caught and the answer is False
BooleanFilterResult(node, field_value) ==
  IF node.op \notin OPERATORS THEN FALSE
  ELSE IF node.op \notin UnaryOps /\ (node.value = NoneVal \/ field_value = NoneVal) THEN FALSE
  ELSE IF OpRaises(node.op, field_value, node.value) THEN FALSE
  ELSE OpFunc(node.op, field_value, node.value)

\* BooleanFilter.evaluate; float() of a dict raises, and the except returns False
BooleanFilterEvaluate(node, hp, payload) ==
  BooleanFilterResult(node, FilterGetNestedValue(hp, payload, node.field))

\* CompositeFilter.evaluate with one child: all / any of one result, or its
\* negation; the child catches its own error and returns False
CompositeFilterEvaluate(node, hp, payload) ==
  CASE node.composite_operator \in {"and", "or"} -> BooleanFilterEvaluate(node, hp, payload)
    [] node.composite_operator = "not" -> ~BooleanFilterEvaluate(node, hp, payload)
    [] OTHER -> FALSE

\* current_node.filter.evaluate(event_data)
FilterEvaluate(node, hp, payload) ==
  IF node.ftype = "composite" THEN CompositeFilterEvaluate(node, hp, payload)
  ELSE BooleanFilterEvaluate(node, hp, payload)

\* does the evaluation of the node's filter raise: float() of a dict under a
\* numeric operator, in the filter or in the child of a composite
FilterRaises(node, hp, payload) ==
  /\ node.op \in NumericOps
  /\ node.value # NoneVal
  /\ FilterGetNestedValue(hp, payload, node.field) = DictVal

\* does the node's transformer raise: float() of a dict
TransformerRaises(node, hp, payload) ==
  node.ttype = "math" /\ ResolvePath(hp, payload, node.field) = DictVal

\* a transformer that stores its output below "data" instead
TransformWriteNested(hp, payload, v) ==
  [p |-> copy(payload), h |-> [hp EXCEPT ![payload.data].x = v]]

\* the write a transformer makes: result = event_data.copy(); result[output_key] = v
TransformWrite(hp, payload, v) ==
  [p |-> [copy(payload) EXCEPT !.x = v], h |-> hp]

\* MathTransformer.transform with operation "add"; PassthroughTransformer.transform
Transform(node, hp, payload) ==
  IF node.ttype = "math"
  THEN LET value == ResolvePath(hp, payload, node.field) IN
       IF value = NoneVal \/ value = DictVal
       THEN [p |-> payload, h |-> hp]
       ELSE TransformWrite(hp, payload, value + node.operand)
  ELSE [p |-> payload, h |-> hp]

(***************************************************************************)
(* Execution policies.  The state of the policy object of one action node. *)
(***************************************************************************)
PolicyState0 == [last_execution |-> NoneVal, execution_times |-> <<>>, pending |-> 0]

RECURSIVE SelectAfter(_, _, _)
\* [t for t in times if t > window_start]
SelectAfter(times, window_start, i) ==
  IF i > Len(times) THEN <<>>
  ELSE IF times[i] > window_start
       THEN <<times[i]>> \o SelectAfter(times, window_start, i + 1)
       ELSE SelectAfter(times, window_start, i + 1)

\* CooldownPolicy.should_execute
CooldownShouldExecute(cfg, ps, t) ==
  [admit |-> ~(ps.last_execution # NoneVal /\ t - ps.last_execution < cfg.c),
   ps |-> ps]

\* RateLimitPolicy.should_execute
RateLimitShouldExecute(cfg, ps, t) ==
  LET kept == SelectAfter(ps.execution_times, t - cfg.w, 1) IN
  [admit |-> ~(Len(kept) >= cfg.n),
   ps |-> [ps EXCEPT !.execution_times = kept]]

\* DebouncePolicy.should_execute: cancels the pending task, schedules a new one
\* only when the context carries _execute_callback, and always returns False
DebounceShouldExecute(cfg, ps, has_callback) ==
  [admit |-> FALSE,
   ps |-> [ps EXCEPT !.pending = IF has_callback THEN 1 ELSE 0]]

\* policy.should_execute(action_id, context)
ShouldExecute(cfg, ps, t, has_callback) ==
  CASE cfg.type = "cooldown" -> CooldownShouldExecute(cfg, ps, t)
    [] cfg.type = "rate_limit" -> RateLimitShouldExecute(cfg, ps, t)
    [] cfg.type = "debounce" -> DebounceShouldExecute(cfg, ps, has_callback)
    [] OTHER -> [admit |-> TRUE, ps |-> ps]

\* policy.on_execute(action_id, context)
OnExecute(cfg, ps, t) ==
  CASE cfg.type = "cooldown" -> [ps EXCEPT !.last_execution = t]
    [] cfg.type = "rate_limit" -> [ps EXCEPT !.execution_times = Append(@, t)]
    [] OTHER -> ps


(***************************************************************************)
(* State                                                                   *)
(***************************************************************************)
VARIABLES
  objs,                  \* every Pipeline object constructed so far
  pipelines,             \* PipelineExecutor.pipelines: id -> object (NoObj: no entry)
  source_subscriptions,  \* PipelineExecutor.source_subscriptions: type -> list of ids
  now,                   \* datetime.utcnow()
  tasks,                 \* the process_event call of each producer
  heap,                  \* the data dict of each SignalEvent
  emitted,               \* number of events emitted so far
  visits,                \* per call: visits of each node in the current traversal
  started,               \* per call: the traversals it started
  stable,                \* per call: ids loaded, active and untouched since it began
  execLog,               \* every action execution: what safe_execute was given
  admitLog,              \* every policy.should_execute call and its answer
  pending_tasks,         \* DebouncePolicy._pending_tasks[key] of each pipeline object
  execution_callbacks,   \* DebouncePolicy._execution_callbacks has the key
  dtasks,                \* every _delayed_execute task created so far
  invoked,               \* every call of a debounce callback
  running,               \* SignalSource._running
  task,                  \* SignalSource._task: a producer task or NoTask (None)
  ptasks,                \* every _run_loop task created so far
  subscribers,           \* SignalSource._subscribers
  stops,                 \* the stop() calls: idle, or awaiting a task
  polled,                \* number of events _poll has returned
  poll_failures,         \* the _poll calls that raised: value of polled at each
  delivered,             \* per callback: the events it was called with, and
                         \* whether the source was stopped at the call
  quiet,                 \* a stop() has returned and no start() was called since
  since,                 \* per callback: value of polled when it subscribed
  call,                  \* the safe_execute call under way: action, config, outcomes
  result,                \* what that safe_execute call came to
  active_connections,    \* ConnectionManager.active_connections: the ids registered
  subscriptions,         \* ConnectionManager.subscriptions: channel -> set of ids
  conns,                 \* the handle_connection coroutine of each client
  bcasts,                \* the broadcast calls: one slot per calling task
  frames,                \* per client: the frames its socket was sent
  received,              \* per client: number of messages receive_json has returned
  nbroadcasts,           \* number of broadcast calls so far
  event,                 \* a SignalEvent
  parsed,                \* SignalEvent.from_dict of its to_dict
  condition,             \* a ConditionalPolicy's condition and the event data it is asked about
  admitted,              \* what its should_execute returned
  config,                \* a policy configuration handed to create_policy
  created,               \* what create_policy came to: a policy object or the exception raised
  thresholds,            \* ThresholdMixin._thresholds: metric -> (low, high), NoBand when absent
  threshold_states,      \* ThresholdMixin._threshold_states: metric -> state, NoState when absent
  checked,               \* the last check_threshold call: arguments, state before, return value
  last_metric,           \* CPUSignalSource._last_cpu and _last_ram
  cpoll,                 \* the last _poll of the CPU source: samples, what it read, what it returned
  handler,               \* the handle_event coroutine of a source: where it is, the event it was called with
  blog,                  \* every broadcast call: frame type, the event behind it, the broadcasts finished before
  finished,              \* the broadcast calls that have returned
  websockets,            \* every WebSocket the endpoint was called with: where its handler is, its client_id
  registry,              \* active_connections as a dict: client_id -> the WebSocket stored under it
  channels,              \* subscriptions as the dict keeps them: channel -> client ids
  own                    \* the channels each WebSocket subscribed to itself

execVars == <<objs, pipelines, source_subscriptions>>
taskVars == <<tasks, heap, emitted>>
ghostVars == <<visits, started, stable, execLog, admitLog>>
coreVars == <<objs, pipelines, source_subscriptions, now, tasks, heap, emitted,
              visits, started, stable, execLog, admitLog>>
debVars == <<pending_tasks, execution_callbacks, dtasks, invoked>>
\* the state outside the executor
srcVars == <<running, task, ptasks, subscribers, stops, polled, poll_failures, delivered,
            quiet, since>>
actVars == <<call, result>>

\* the WebSockets that connect, the client_id query parameters they present,
\* and the empty slot of active_connections
Sockets == 1..MaxSockets
ClientIds == {"c1", "c2"}
NoSocket == 0
NewSocket == [pc |-> "new", client_id |-> ""]

\* handle_event is not running
IdleHandler == [pc |-> "idle", ev |-> 0]

\* the metrics a ThresholdMixin is asked about; a metric without a band, a
\* metric without a stored state, check_threshold returning None
Metrics == {"cpu", "ram"}
NoBand == <<>>
NoState == ""
None == "None"
NoCheck == [called |-> FALSE, name |-> "", value |-> 0, band |-> NoBand,
            before |-> NoState, after |-> NoState, returned |-> None]
NoPoll == [done |-> FALSE, sample |-> [m \in Metrics |-> 0],
           last_before |-> [m \in Metrics |-> NoneVal],
           zone_before |-> [m \in Metrics |-> NoState],
           changes |-> {}, event |-> None]

\* no create_policy call yet, and no outcome of one yet
NoConfig == [type |-> "", operator |-> "", policies |-> <<>>]
NotCreated == [kind |-> "", policy_type |-> ""]

\* no should_execute call of a ConditionalPolicy yet, and no return value yet
NoQuestion == [ftype |-> "", field |-> <<>>, op |-> "", value |-> 0, cpu_percent |-> 0]
NoAnswer == [returned |-> FALSE, value |-> FALSE]

\* no SignalEvent yet
NoEvent == [id |-> "", source_type |-> "", source_name |-> "", event_type |-> <<"", "">>,
            timestamp |-> [s |-> 0, us |-> 0, tz |-> ""], data |-> "", metadata |-> ""]

\* no safe_execute call yet, and no outcome yet
NoCall == [action_type |-> "", enabled |-> {}, validate |-> "", execute |-> ""]
NoResult == [raised |-> "", status |-> "", error |-> "", executed |-> FALSE]
hubVars == <<active_connections, subscriptions, conns, bcasts, frames, received, nbroadcasts>>
evtVars == <<event, parsed>>
condVars == <<condition, admitted>>
polVars == <<config, created>>
thrVars == <<thresholds, threshold_states, checked, last_metric, cpoll>>
flowVars == <<handler, blog, finished>>
regVars == <<websockets, registry, channels, own>>
compVars == <<debVars, srcVars, actVars, hubVars, evtVars, condVars, polVars, thrVars, flowVars, regVars>>

\* what the actions of one component leave alone
exceptDeb == <<coreVars, srcVars, actVars, hubVars, evtVars, condVars, polVars, thrVars, flowVars, regVars>>
exceptSrc == <<coreVars, debVars, actVars, hubVars, evtVars, condVars, polVars, thrVars, flowVars, regVars>>
exceptAct == <<coreVars, debVars, srcVars, hubVars, evtVars, condVars, polVars, thrVars, flowVars, regVars>>
exceptHub == <<coreVars, debVars, srcVars, actVars, evtVars, condVars, polVars, thrVars, flowVars, regVars>>
exceptEvt == <<coreVars, debVars, srcVars, actVars, hubVars, condVars, polVars, thrVars, flowVars, regVars>>
exceptCond == <<coreVars, debVars, srcVars, actVars, hubVars, evtVars, polVars, thrVars, flowVars, regVars>>
exceptPol == <<coreVars, debVars, srcVars, actVars, hubVars, evtVars, condVars, thrVars, flowVars, regVars>>
exceptThr == <<coreVars, debVars, srcVars, actVars, hubVars, evtVars, condVars, polVars, flowVars, regVars>>
exceptFlow == <<coreVars, debVars, srcVars, actVars, hubVars, evtVars, condVars, polVars, thrVars, regVars>>
exceptReg == <<coreVars, debVars, srcVars, actVars, hubVars, evtVars, condVars, polVars, thrVars, flowVars>>
vars == <<coreVars, compVars>>

\* tasks[t].dead: the pipeline objects that were unloaded when the call began
\* tasks[t].published: the results _notify_action passed to the action handlers

\* the producer behind each process_event call
SourceOf(t) == IF t % 2 = 1 THEN "cpu" ELSE "battery"

IdleTask ==
  [pc |-> "idle", ev |-> 0, source_type |-> "", live |-> FALSE, idx |-> 0,
   pid |-> 0, pobj |-> NoObj, sidx |-> 0, trav |-> 0, dead |-> {},
   queue |-> <<>>, cur |-> [node |-> "", payload |-> to_dict(1)], results |-> <<>>,
   published |-> <<>>]

NoVisits == [n \in NodeIds |-> 0]

\* the websocket clients, the channels and the tasks that broadcast
Clients == {"c1", "c2", "c3"}
Channels == {"events", "actions"}
Broadcasters == {1, 2}
NoFrame == [type |-> "", channel |-> "", id |-> 0]
NoMessage == [type |-> "", channel |-> ""]
\* pc: where the coroutine is suspended; msg: the last message it received;
\* frame: the frame it is sending
NewConn == [pc |-> "none", msg |-> NoMessage, frame |-> NoFrame]
\* ids: the copy of the subscriber set the call iterates over; todo: the ids
\* not yet reached; cur: the id being sent to.  Kept for the record:
\* subs_start, the channel's subscriber set when the call began; ok, failed:
\* the ids whose send returned / raised; absent: the ids that had no
\* registered socket at their turn
IdleBroadcast ==
  [pc |-> "idle", id |-> 0, frame |-> NoFrame, channel |-> "", ids |-> {}, todo |-> {},
   cur |-> "", sent_count |-> 0, ok |-> {}, failed |-> {}, absent |-> {}, subs_start |-> {}]
NoTask == 0                  \* the key is not in _pending_tasks; _task is None
StopCallers == {1, 2}        \* the coroutines that call stop()
\* the subscriber callbacks; all are coroutine functions, as handle_event is
Callbacks == {"h1", "h2", "stuck"}
NeverReturns == {"stuck"}    \* callbacks whose coroutine never completes

Init ==
  /\ objs = <<>>
  /\ pipelines = [p \in PipelineIds |-> NoObj]
  /\ source_subscriptions = <<>>
  /\ now = 0
  /\ tasks = [t \in Tasks |-> IdleTask]
  /\ heap = [e \in EventIds |-> EmptyData]
  /\ emitted = 0
  /\ visits = [t \in Tasks |-> NoVisits]
  /\ started = [t \in Tasks |-> <<>>]
  /\ stable = [t \in Tasks |-> {}]
  /\ execLog = <<>>
  /\ admitLog = <<>>
  /\ pending_tasks = [o \in 1..MaxObjs |-> NoTask]
  /\ execution_callbacks = [o \in 1..MaxObjs |-> FALSE]
  /\ dtasks = <<>>
  /\ invoked = <<>>
  /\ running = FALSE
  /\ task = NoTask
  /\ ptasks = <<>>
  /\ subscribers = <<>>
  /\ stops = [k \in StopCallers |-> [pc |-> "idle", awaiting |-> NoTask]]
  /\ polled = 0
  /\ poll_failures = <<>>
  /\ delivered = [c \in Callbacks |-> <<>>]
  /\ quiet = FALSE
  /\ since = [c \in Callbacks |-> NoneVal]
  /\ call = NoCall
  /\ result = NoResult
  /\ active_connections = {}
  /\ subscriptions = [ch \in Channels |-> {}]
  /\ conns = [c \in Clients |-> NewConn]
  /\ bcasts = [b \in Broadcasters |-> IdleBroadcast]
  /\ frames = [c \in Clients |-> <<>>]
  /\ received = [c \in Clients |-> 0]
  /\ nbroadcasts = 0
  /\ event = NoEvent
  /\ parsed = NoEvent
  /\ condition = NoQuestion
  /\ admitted = NoAnswer
  /\ config = NoConfig
  /\ created = NotCreated
  /\ thresholds = [m \in Metrics |-> NoBand]
  /\ threshold_states = [m \in Metrics |-> NoState]
  /\ checked = NoCheck
  /\ last_metric = [m \in Metrics |-> NoneVal]
  /\ cpoll = NoPoll
  /\ handler = IdleHandler
  /\ blog = <<>>
  /\ finished = {}
  /\ websockets = [s \in Sockets |-> NewSocket]
  /\ registry = [c \in ClientIds |-> NoSocket]
  /\ channels = [ch \in Channels |-> {}]
  /\ own = [s \in Sockets |-> {}]

GraphOf(o) == Graphs[objs[o].cfg]
Subscribed(T) == IF T \in DOMAIN source_subscriptions THEN source_subscriptions[T] ELSE <<>>
InSeq(x, seq) == \E i \in 1..Len(seq) : seq[i] = x

(***************************************************************************)
(* load_pipeline, unload_pipeline, set_pipeline_active                     *)
(***************************************************************************)
RECURSIVE Register(_, _, _, _)
\* load_pipeline, the loop over pipeline.get_source_nodes()
Register(subs, g, srcs, pid) ==
  IF srcs = <<>> THEN subs
  ELSE LET T == GetNode(g, Head(srcs)).source_type
           withKey == IF T \in DOMAIN subs THEN subs
                      ELSE [k \in DOMAIN subs \cup {T} |-> IF k = T THEN <<>> ELSE subs[k]]
           withId == IF InSeq(pid, withKey[T]) THEN withKey
                     ELSE [withKey EXCEPT ![T] = Append(@, pid)]
       IN IF T = "" THEN Register(subs, g, Tail(srcs), pid)
          ELSE Register(withId, g, Tail(srcs), pid)

\* Pipeline.__init__: every node gets its own policy object
NewPipeline(gname) ==
  [cfg |-> gname, is_active |-> TRUE,
   policy |-> [n \in NodeIds |-> PolicyState0]]

LoadPipeline(pid, gname) ==
  /\ Len(objs) < MaxObjs
  /\ objs' = Append(objs, NewPipeline(gname))
  /\ pipelines' = [pipelines EXCEPT ![pid] = Len(objs) + 1]
  /\ source_subscriptions' =
       Register(source_subscriptions, Graphs[gname], get_source_nodes(Graphs[gname]), pid)
  /\ stable' = [t \in Tasks |-> stable[t] \ {pid}]
  /\ UNCHANGED <<now, tasks, heap, emitted, visits, started, execLog, admitLog>>
  /\ UNCHANGED compVars

\* a remove that leaves the list as it is
RemoveNone(seq, x) == seq

RECURSIVE Remove(_, _)
\* list.remove(x) where x is in the list: drops the first occurrence
Remove(seq, x) ==
  IF seq = <<>> THEN <<>>
  ELSE IF Head(seq) = x THEN Tail(seq)
  ELSE <<Head(seq)>> \o Remove(Tail(seq), x)

\* unload_pipeline(pid): its return value and the two tables it leaves
unload_pipeline(pid) ==
  IF pipelines[pid] = NoObj
  THEN [ret |-> FALSE, pipelines |-> pipelines, source_subscriptions |-> source_subscriptions]
  ELSE [ret |-> TRUE,
        pipelines |-> [pipelines EXCEPT ![pid] = NoObj],
        source_subscriptions |->
          [T \in DOMAIN source_subscriptions |->
             IF InSeq(pid, source_subscriptions[T])
             THEN Remove(source_subscriptions[T], pid)
             ELSE source_subscriptions[T]]]

UnloadPipeline(pid) ==
  /\ source_subscriptions' = unload_pipeline(pid).source_subscriptions
  /\ pipelines' = unload_pipeline(pid).pipelines
  /\ stable' = [t \in Tasks |-> stable[t] \ {pid}]
  /\ UNCHANGED <<objs, now, tasks, heap, emitted, visits, started, execLog, admitLog>>
  /\ UNCHANGED compVars

SetPipelineActive(pid, active) ==
  /\ pipelines[pid] # NoObj
  /\ objs[pipelines[pid]].is_active # active
  /\ objs' = [objs EXCEPT ![pipelines[pid]].is_active = active]
  /\ stable' = [t \in Tasks |-> stable[t] \ {pid}]
  /\ UNCHANGED <<pipelines, source_subscriptions, now, tasks, heap, emitted,
                 visits, started, execLog, admitLog>>
  /\ UNCHANGED compVars

Tick ==
  /\ now < MaxTime
  /\ now' = now + 1
  /\ UNCHANGED <<objs, pipelines, source_subscriptions, tasks, heap, emitted,
                 visits, started, stable, execLog, admitLog>>
  /\ UNCHANGED compVars


(***************************************************************************)
(* process_event and _process_pipeline                                     *)
(***************************************************************************)
Min(a, b) == IF a < b THEN a ELSE b

RECURSIVE Advance(_)
\* The synchronous code between the end of one node visit and the next
\* suspension: `while queue`, the return of _process_pipeline, the loop over
\* the pipeline's source nodes and the loop over the subscription list (an
\* index into the live list), up to the first entry of a queue or the return.
Advance(tk) ==
  IF tk.queue # <<>> THEN [tk EXCEPT !.pc = "visit"]
  ELSE IF tk.pobj # NoObj /\ tk.sidx < Len(get_source_nodes(GraphOf(tk.pobj)))
  THEN LET n == get_source_nodes(GraphOf(tk.pobj))[tk.sidx + 1] IN
       IF GetNode(GraphOf(tk.pobj), n).source_type = tk.source_type
       THEN [tk EXCEPT !.sidx = @ + 1, !.trav = @ + 1, !.pc = "visit",
                       !.queue = << [node |-> n, payload |-> to_dict(tk.ev)] >>]
       ELSE Advance([tk EXCEPT !.sidx = @ + 1])
  ELSE LET pipeline_ids == IF tk.live THEN source_subscriptions[tk.source_type] ELSE <<>> IN
       IF tk.idx < Len(pipeline_ids)
       THEN LET pid == pipeline_ids[tk.idx + 1]
                o == pipelines[pid]
            IN IF o = NoObj \/ ~objs[o].is_active
               THEN Advance([tk EXCEPT !.idx = @ + 1, !.pobj = NoObj])
               ELSE Advance([tk EXCEPT !.idx = @ + 1, !.pid = pid, !.pobj = o, !.sidx = 0])
       ELSE [tk EXCEPT !.pc = "done", !.pobj = NoObj]

\* what the call has just started, if anything
StartRecord(nt) ==
  [pid |-> nt.pid, obj |-> nt.pobj, node |-> Head(nt.queue).node,
   loaded |-> pipelines[nt.pid] = nt.pobj, active |-> objs[nt.pobj].is_active]

\* the call of task t goes on from tk; v: the visit counters of its traversal
Continue(t, tk, v, st) ==
  LET nt == Advance(tk) IN
  /\ tasks' = [tasks EXCEPT ![t] = nt]
  /\ IF nt.trav # tk.trav
     THEN /\ started' = [started EXCEPT ![t] = Append(st, StartRecord(nt))]
          /\ visits' = [visits EXCEPT ![t] = NoVisits]
     ELSE /\ started' = [started EXCEPT ![t] = st]
          /\ visits' = [visits EXCEPT ![t] = v]

\* the pipeline objects that no id refers to: unloaded or replaced
Unloaded == {o \in 1..Len(objs) : \A pid \in PipelineIds : pipelines[pid] # o}

\* ids that are loaded, active and subscribed to T
Eligible(T) ==
  {pid \in PipelineIds : /\ pipelines[pid] # NoObj
                         /\ objs[pipelines[pid]].is_active
                         /\ InSeq(pid, Subscribed(T))}

\* process_event(event) is called: up to the first suspension
ProcessEvent(t, sample) ==
  /\ tasks[t].pc \in {"idle", "done"}
  /\ emitted < MaxEvents
  /\ emitted' = emitted + 1
  /\ heap' = [heap EXCEPT ![emitted + 1] = [cpu_percent |-> sample, x |-> NoneVal]]
  /\ stable' = [stable EXCEPT ![t] = Eligible(SourceOf(t))]
  /\ Continue(t, [IdleTask EXCEPT !.ev = emitted + 1, !.source_type = SourceOf(t),
                                  !.dead = Unloaded,
                                  !.live = SourceOf(t) \in DOMAIN source_subscriptions],
              NoVisits, <<>>)
  /\ UNCHANGED <<objs, pipelines, source_subscriptions, now, execLog, admitLog>>
  /\ UNCHANGED compVars

RECURSIVE EnqueueFrom(_, _, _, _)
EnqueueFrom(queue, connected, payload, i) ==
  IF i > Len(connected) THEN queue
  ELSE EnqueueFrom(Append(queue, [node |-> connected[i], payload |-> copy(payload)]),
                   connected, payload, i + 1)

\* a stack instead of a queue: the successors go to the front
EnqueueFront(g, queue, n, payload) ==
  EnqueueFrom(<<>>, get_connected_nodes(g, n), payload, 1) \o queue

\* for next_node in connected_nodes: queue.append((next_node.id, event_data.copy()))
Enqueue(g, queue, n, payload) == EnqueueFrom(queue, get_connected_nodes(g, n), payload, 1)

\* a filter branch without its `continue`
FilterPassesAlways(node, hp, payload) == TRUE

\* the filter branch of _process_pipeline: does the visit go on to the successors
FilterPasses(node, hp, payload) ==
  ~HasFilter(node) \/ FilterEvaluate(node, hp, payload)

\* one pass of the while loop for a source, filter or transformer node
VisitPlain(t, tk, item, rest, g, node, v) ==
  LET tr == IF HasTransformer(node) THEN Transform(node, heap, item.payload)
            ELSE [p |-> item.payload, h |-> heap]
  IN /\ heap' = tr.h
     /\ IF node.type = "filter" /\ ~FilterPasses(node, heap, item.payload)
        THEN Continue(t, [tk EXCEPT !.queue = rest], v, started[t])
        ELSE Continue(t, [tk EXCEPT !.queue = Enqueue(g, rest, item.node, tr.p)], v, started[t])
     /\ UNCHANGED <<objs, execLog, admitLog>>

ExecRecord(tk, item) ==
  [ev |-> tk.ev, pid |-> tk.pid, obj |-> tk.pobj, node |-> item.node,
   x |-> item.payload.x, data |-> heap[item.payload.data], at |-> now]

\* one policy object for all the action nodes of a pipeline
NodePolicyShared(n) == "a"

\* PipelineNode.policy: the policy object current_node.policy refers to; every
\* node builds its own in _initialize_component
NodePolicy(n) == n

\* a denial that lets the traversal go on behind the action node
AfterDenialEnqueue(g, rest, n, payload) == Enqueue(g, rest, n, payload)

\* `if not should_execute: continue`: the rest of the loop body is skipped
AfterDenial(g, rest, n, payload) == rest

\* one pass of the while loop for an action node with an action, up to the
\* suspension in safe_execute (admitted) or to the `continue` (denied)
VisitAction(t, tk, item, rest, g, node, v) ==
  LET ps == objs[tk.pobj].policy[NodePolicy(item.node)]
      r == IF HasPolicy(node) THEN ShouldExecute(node.policy, ps, now, FALSE)
           ELSE [admit |-> TRUE, ps |-> ps]
  IN /\ objs' = [objs EXCEPT ![tk.pobj].policy[NodePolicy(item.node)] = r.ps]
     /\ heap' = heap
     /\ admitLog' = IF HasPolicy(node)
                    THEN Append(admitLog, [ev |-> tk.ev, obj |-> tk.pobj, node |-> item.node,
                                           at |-> now, admit |-> r.admit])
                    ELSE admitLog
     /\ IF r.admit
        THEN /\ tasks' = [tasks EXCEPT ![t] = [tk EXCEPT !.pc = "exec", !.queue = rest, !.cur = item]]
             /\ execLog' = Append(execLog, ExecRecord(tk, item))
             /\ visits' = [visits EXCEPT ![t] = v]
             /\ started' = started
        ELSE /\ Continue(t, [tk EXCEPT !.queue = AfterDenial(g, rest, item.node, item.payload)],
                         v, started[t])
             /\ execLog' = execLog

\* resume after await _notify_event: process the node at the head of the queue
Visit(t) ==
  /\ tasks[t].pc = "visit"
  /\ LET tk == tasks[t]
         item == Head(tk.queue)
         rest == Tail(tk.queue)
         g == GraphOf(tk.pobj)
         node == GetNode(g, item.node)
         v == [visits[t] EXCEPT ![item.node] = Min(@ + 1, VisitCap)]
     IN IF HasAction(node)
        THEN VisitAction(t, tk, item, rest, g, node, v)
        ELSE VisitPlain(t, tk, item, rest, g, node, v)
  /\ UNCHANGED <<pipelines, source_subscriptions, now, emitted, stable>>
  /\ UNCHANGED compVars

ResultStatuses == {"success", "failure"}
\* with the status of a refused permission
AllResultStatuses == ResultStatuses \cup {"permission_denied"}

\* successors enqueued after a successful action only
AfterActionOnSuccess(g, queue, n, payload, status) ==
  IF status = "success" THEN Enqueue(g, queue, n, payload) ELSE queue

\* the end of the loop body after the action branch: nothing in the branch
\* reads result.status, the successors are enqueued whatever it is
AfterAction(g, queue, n, payload, status) == Enqueue(g, queue, n, payload)

\* on_execute after a successful execution only
RecordOnSuccess(cfg, ps, t, status) == IF status = "success" THEN OnExecute(cfg, ps, t) ELSE ps

\* `if current_node.policy: await current_node.policy.on_execute(...)`:
\* result.status is not read
RecordExecution(cfg, ps, t, status) == OnExecute(cfg, ps, t)

\* safe_execute returns: results.append, policy.on_execute, _notify_action,
\* the successors are enqueued
ActionReturn(t, status) ==
  /\ tasks[t].pc = "exec"
  /\ LET tk == tasks[t]
         g == GraphOf(tk.pobj)
         node == GetNode(g, tk.cur.node)
     IN /\ objs' = IF HasPolicy(node)
                   THEN [objs EXCEPT ![tk.pobj].policy[NodePolicy(tk.cur.node)] =
                                       RecordExecution(node.policy, @, now, status)]
                   ELSE objs
        /\ Continue(t, [tk EXCEPT !.results = Append(@, [node |-> tk.cur.node, status |-> status]),
                                  !.published = Append(@, [node |-> tk.cur.node, status |-> status]),
                                  !.queue = AfterAction(g, tk.queue, tk.cur.node, tk.cur.payload, status)],
                    visits[t], started[t])
  /\ UNCHANGED <<pipelines, source_subscriptions, now, heap, emitted, stable, execLog, admitLog>>
  /\ UNCHANGED compVars

(***************************************************************************)
(* DebouncePolicy driven by a caller that puts _execute_callback in the    *)
(* context.  One policy object per action node; the modelled graphs have   *)
(* one debounced node, so the object and its one key are named by the      *)
(* pipeline object.  A _delayed_execute task is "created" until the event  *)
(* loop first runs it, "sleeping" in asyncio.sleep, "calling" while it     *)
(* awaits the callback, then "done".                                       *)
(***************************************************************************)
\* the action nodes of pipeline object o that carry a DebouncePolicy
DebounceNodes(o) ==
  {n \in GraphNodeIds(GraphOf(o)) :
     HasPolicy(GetNode(GraphOf(o), n)) /\ GetNode(GraphOf(o), n).policy.type = "debounce"}

\* self.delay_seconds of the policy object of o
delay_seconds(o) == GetNode(GraphOf(o), CHOOSE n \in DebounceNodes(o) : TRUE).policy.d

\* Task.cancel(): no effect on a finished task
Cancel(ts, i) ==
  IF i # NoTask /\ ts[i].st # "done" THEN [ts EXCEPT ![i].cancelled = TRUE] ELSE ts

\* DebouncePolicy.should_execute(key, context) with a callback in the context;
\* it returns False
ShouldExecuteWithCallback(pid) ==
  /\ pipelines[pid] # NoObj
  /\ DebounceNodes(pipelines[pid]) # {}
  /\ Len(dtasks) < MaxDebounceCalls
  /\ LET o == pipelines[pid] IN
     /\ dtasks' = Append(Cancel(dtasks, pending_tasks[o]),
                         [obj |-> o, st |-> "created", cancelled |-> FALSE,
                          due |-> NoneVal, called_at |-> now])
     /\ pending_tasks' = [pending_tasks EXCEPT ![o] = Len(dtasks) + 1]
     /\ execution_callbacks' = [execution_callbacks EXCEPT ![o] = TRUE]
  /\ UNCHANGED <<invoked, exceptDeb>>

\* the finally block of _delayed_execute: both dicts lose the key, whichever
\* task put it there
DelayedFinally(i) ==
  /\ dtasks' = [dtasks EXCEPT ![i].st = "done"]
  /\ pending_tasks' = [pending_tasks EXCEPT ![dtasks[i].obj] = NoTask]
  /\ execution_callbacks' = [execution_callbacks EXCEPT ![dtasks[i].obj] = FALSE]
  /\ invoked' = invoked

\* the event loop runs task i up to its next suspension
DelayedExecute(i) ==
  /\ i \in 1..Len(dtasks)
  /\ LET tk == dtasks[i] IN
     CASE tk.st = "created" /\ tk.cancelled ->
            \* CancelledError is thrown into the coroutine before its first
            \* statement: the try block is never entered
            /\ dtasks' = [dtasks EXCEPT ![i].st = "done"]
            /\ UNCHANGED <<pending_tasks, execution_callbacks, invoked>>
       [] tk.st = "created" /\ ~tk.cancelled ->
            /\ dtasks' = [dtasks EXCEPT ![i].st = "sleeping",
                                        ![i].due = now + delay_seconds(tk.obj)]
            /\ UNCHANGED <<pending_tasks, execution_callbacks, invoked>>
       [] tk.st = "sleeping" /\ tk.cancelled -> DelayedFinally(i)
       [] tk.st = "sleeping" /\ ~tk.cancelled ->
            /\ now >= tk.due
            /\ IF execution_callbacks[tk.obj]
               THEN /\ dtasks' = [dtasks EXCEPT ![i].st = "calling"]
                    /\ invoked' = Append(invoked,
                         [task |-> i, obj |-> tk.obj, at |-> now,
                          loaded |-> \E pid \in PipelineIds : pipelines[pid] = tk.obj])
                    /\ UNCHANGED <<pending_tasks, execution_callbacks>>
               ELSE DelayedFinally(i)
       [] tk.st = "calling" -> DelayedFinally(i)
       [] OTHER -> FALSE
  /\ UNCHANGED exceptDeb

(***************************************************************************)
(* SignalSource: start, stop, subscribe, unsubscribe and the producer task *)
(* _run_loop.  _poll is taken not to suspend (the sources of the           *)
(* repository compute their event without awaiting), so a producer task is *)
(* "created" until the event loop first runs it, "notifying" while it      *)
(* awaits a subscriber's coroutine, "sleeping" in asyncio.sleep, then      *)
(* "done".                                                                 *)
(***************************************************************************)
\* SignalSource.subscribe
Subscribe(c) ==
  /\ IF InSeq(c, subscribers)
     THEN UNCHANGED <<subscribers, since>>
     ELSE /\ subscribers' = Append(subscribers, c)
          /\ since' = [since EXCEPT ![c] = polled]
  /\ UNCHANGED <<running, task, ptasks, stops, polled, poll_failures, delivered, quiet>>
  /\ UNCHANGED exceptSrc

\* SignalSource.unsubscribe
Unsubscribe(c) ==
  /\ IF InSeq(c, subscribers)
     THEN /\ subscribers' = Remove(subscribers, c)
          /\ since' = [since EXCEPT ![c] = NoneVal]
     ELSE UNCHANGED <<subscribers, since>>
  /\ UNCHANGED <<running, task, ptasks, stops, polled, poll_failures, delivered, quiet>>
  /\ UNCHANGED exceptSrc

\* SignalSource.start
Start ==
  /\ IF running
     THEN UNCHANGED <<running, task, ptasks>>
     ELSE /\ Len(ptasks) < MaxProducerTasks
          /\ running' = TRUE
          /\ ptasks' = Append(ptasks, [st |-> "created", cancelled |-> FALSE,
                                       ev |-> 0, idx |-> 0, cb |-> ""])
          /\ task' = Len(ptasks) + 1
  /\ quiet' = FALSE
  /\ UNCHANGED <<subscribers, stops, polled, poll_failures, delivered, since>>
  /\ UNCHANGED exceptSrc

\* SignalSource.stop up to `await self._task`; awaiting a task that is done
\* does not suspend, and without a task the call returns at once
StopBegin(k) ==
  /\ stops[k].pc = "idle"
  /\ running' = FALSE
  /\ ptasks' = Cancel(ptasks, task)
  /\ IF task = NoTask
     THEN /\ quiet' = TRUE
          /\ UNCHANGED <<task, stops>>
     ELSE IF ptasks[task].st = "done"
     THEN /\ task' = NoTask
          /\ quiet' = TRUE
          /\ stops' = stops
     ELSE /\ stops' = [stops EXCEPT ![k] = [pc |-> "awaiting", awaiting |-> task]]
          /\ UNCHANGED <<task, quiet>>
  /\ UNCHANGED <<subscribers, polled, poll_failures, delivered, since>>
  /\ UNCHANGED exceptSrc

\* SignalSource.stop resumes when the awaited task is done: self._task = None
StopResume(k) ==
  /\ stops[k].pc = "awaiting"
  /\ ptasks[stops[k].awaiting].st = "done"
  /\ task' = NoTask
  /\ stops' = [stops EXCEPT ![k] = [pc |-> "idle", awaiting |-> NoTask]]
  /\ quiet' = TRUE
  /\ UNCHANGED <<running, ptasks, subscribers, polled, poll_failures, delivered, since>>
  /\ UNCHANGED exceptSrc

\* _notify_subscribers calls the callback at position idx of the live list
\* and awaits its coroutine, or is past the end of the list
NotifyFrom(i, e, idx) ==
  IF idx <= Len(subscribers)
  THEN /\ ptasks' = [ptasks EXCEPT ![i] = [@ EXCEPT !.st = "notifying", !.ev = e,
                                                    !.idx = idx, !.cb = subscribers[idx]]]
       /\ delivered' = [delivered EXCEPT ![subscribers[idx]] =
                          Append(@, [ev |-> e, quiet |-> quiet /\ ~running])]
  ELSE /\ ptasks' = [ptasks EXCEPT ![i].st = "sleeping"]
       /\ delivered' = delivered

\* a loop whose handler for an exception of _poll leaves the loop
ExceptBreak(ts, i) == [ts EXCEPT ![i].st = "done"]

\* `except Exception` of _run_loop logs the error; the loop goes on to
\* `await asyncio.sleep(self.get_poll_interval())`
ExceptException(ts, i) == [ts EXCEPT ![i].st = "sleeping"]

\* _run_loop from `while self._running` to its next suspension: _poll
\* returns an event, returns None, or raises
PollAndNotify(i) ==
  IF ~running
  THEN /\ ptasks' = [ptasks EXCEPT ![i].st = "done"]
       /\ UNCHANGED <<polled, poll_failures, delivered>>
  ELSE \/ /\ polled < MaxPolls
          /\ polled' = polled + 1
          /\ NotifyFrom(i, polled + 1, 1)
          /\ poll_failures' = poll_failures
       \/ /\ ptasks' = [ptasks EXCEPT ![i].st = "sleeping"]
          /\ UNCHANGED <<polled, poll_failures, delivered>>
       \/ /\ Len(poll_failures) < MaxPollErrors
          /\ poll_failures' = Append(poll_failures, polled)
          /\ ptasks' = ExceptException(ptasks, i)
          /\ UNCHANGED <<polled, delivered>>

\* the event loop runs producer task i up to its next suspension
ProducerStep(i) ==
  /\ i \in 1..Len(ptasks)
  /\ LET tk == ptasks[i] IN
     CASE tk.st # "done" /\ tk.cancelled ->
            \* CancelledError: thrown before the first statement, caught by
            \* the loop's except (break), or raised by asyncio.sleep
            /\ ptasks' = [ptasks EXCEPT ![i].st = "done"]
            /\ UNCHANGED <<polled, poll_failures, delivered>>
       [] tk.st \in {"created", "sleeping"} /\ ~tk.cancelled -> PollAndNotify(i)
       [] tk.st = "notifying" /\ ~tk.cancelled ->
            /\ tk.cb \notin NeverReturns
            /\ NotifyFrom(i, tk.ev, tk.idx + 1)
            /\ UNCHANGED <<polled, poll_failures>>
       [] OTHER -> FALSE
  /\ UNCHANGED <<running, task, subscribers, stops, quiet, since>>
  /\ UNCHANGED exceptSrc

(***************************************************************************)
(* Action.safe_execute.  A call is an action class, the permission flags   *)
(* of the configuration, what validate_params does and what execute does.  *)
(***************************************************************************)

\* the permission flags of PermissionConfig that check_permission reads
PermissionTypes == {"shell_execution", "file_operations", "process_control", "network_control"}

\* the class attributes requires_permission / permission_type of each action;
\* "custom" stands for a subclass that sets requires_permission and leaves
\* permission_type None
ActionClasses == ACTION_TYPES \cup {"custom"}
requires_permission(a) == a # "notification"
permission_type(a) ==
  CASE a = "shell" -> "shell_execution"
    [] a = "file_operation" -> "file_operations"
    [] a = "process_control" -> "process_control"
    [] a = "network_control" -> "network_control"
    [] OTHER -> "None"

\* a check that grants everything
CheckPermissionAlways(a, enabled) == TRUE

\* Action.check_permission
check_permission(a, enabled) ==
  IF ~requires_permission(a) THEN TRUE
  ELSE IF permission_type(a) \in PermissionTypes THEN permission_type(a) \in enabled
  ELSE FALSE

\* validate_params: (True, None), (False, message), (False, None), or raises
ValidateOutcomes == {"valid", "invalid_message", "invalid_none", "raises"}
\* execute: returns an ActionResult of some status, returns something that is
\* not an ActionResult, raises an Exception, or is cancelled while awaited
ExecuteOutcomes == {"success", "failure", "skipped", "not_a_result", "raises", "cancelled"}

ActionCalls ==
  [action_type : ActionClasses, enabled : SUBSET PermissionTypes,
   validate : ValidateOutcomes, execute : ExecuteOutcomes]

Returned(status, error, executed) ==
  [raised |-> "none", status |-> status, error |-> error, executed |-> executed]

\* Action.safe_execute(context)
safe_execute(c) ==
  IF requires_permission(c.action_type) /\ ~check_permission(c.action_type, c.enabled)
  THEN Returned("permission_denied", "requires permission", FALSE)
  ELSE CASE c.validate = "raises" -> Returned("failure", "validate_params error", FALSE)
         [] c.validate = "invalid_message" -> Returned("failure", "message", FALSE)
         [] c.validate = "invalid_none" -> Returned("failure", "Invalid parameters", FALSE)
         [] OTHER ->
              CASE c.execute = "raises" -> Returned("failure", "execute error", TRUE)
                [] c.execute = "not_a_result" -> Returned("failure", "AttributeError", TRUE)
                [] c.execute = "cancelled" ->
                     \* asyncio.CancelledError is not an Exception: it leaves
                     \* safe_execute through `except Exception`
                     [raised |-> "CancelledError", status |-> "", error |-> "", executed |-> TRUE]
                [] OTHER -> Returned(c.execute, "", TRUE)

\* safe_execute is called on an action
CallAction(c) ==
  /\ call = NoCall
  /\ call' = c
  /\ result' = result
  /\ UNCHANGED exceptAct

\* the call runs to its end
SafeExecute ==
  /\ call # NoCall
  /\ result = NoResult
  /\ result' = safe_execute(call)
  /\ call' = call
  /\ UNCHANGED exceptAct

(***************************************************************************)
(* The websocket hub (backend/websocket/handler.py).  The critical         *)
(* sections under ConnectionManager._lock contain no await, so the lock is *)
(* free whenever a coroutine reaches it and connect's registration,        *)
(* disconnect, subscribe and unsubscribe run without suspension.  A        *)
(* coroutine suspends in websocket.accept, receive_json and send_json.     *)
(* subscriptions maps every channel to a set: a channel without a key is   *)
(* read as the empty set by every reader (`.get(channel, set())`).         *)
(***************************************************************************)
\* a disconnect that leaves the subscriptions alone
KeepSubscriptions(subs, c) == subs

\* ConnectionManager.disconnect(client_id): what is left registered
disconnect_connections(active, c) == active \ {c}
disconnect_subscriptions(subs, c) == [ch \in Channels |-> subs[ch] \ {c}]

\* ConnectionManager.subscribe(client_id, channel)
subscribe(subs, active, c, ch) == [subs EXCEPT ![ch] = @ \cup {c}]

\* ConnectionManager.unsubscribe(client_id, channel)
unsubscribe(subs, c, ch) == [subs EXCEPT ![ch] = @ \ {c}]

\* the messages a client sends: the types with a handler, one without, and a
\* subscribe / unsubscribe without a channel
MessageTypes == {"subscribe", "unsubscribe", "ping", "pipeline", "bogus"}
Handled == {"subscribe", "unsubscribe", "ping", "pipeline"}
Messages ==
  [type : {"subscribe", "unsubscribe"}, channel : Channels \cup {""}]
    \cup [type : MessageTypes \ {"subscribe", "unsubscribe"}, channel : {""}]

\* the frame the handler of a message sends back, NoFrame when it sends none
Answer(msg) ==
  CASE msg.type = "subscribe" /\ msg.channel # "" ->
         [type |-> "subscribed", channel |-> msg.channel, id |-> 0]
    [] msg.type = "unsubscribe" /\ msg.channel # "" ->
         [type |-> "unsubscribed", channel |-> msg.channel, id |-> 0]
    [] msg.type = "ping" -> [type |-> "pong", channel |-> "", id |-> 0]
    [] OTHER -> NoFrame

\* the send_json calls awaited on the socket of client c
SendsOutstanding(c) ==
  (IF conns[c].pc = "send" THEN {<<"conn", c>>} ELSE {})
    \cup {<<"broadcast", b>> : b \in {x \in Broadcasters : bcasts[x].pc = "send" /\ bcasts[x].cur = c}}

\* the websocket endpoint is called for client c: await websocket.accept()
HandleConnection(c) ==
  /\ conns[c].pc = "none"
  /\ conns' = [conns EXCEPT ![c].pc = "accept"]
  /\ UNCHANGED <<active_connections, subscriptions, bcasts, frames, received, nbroadcasts>>
  /\ UNCHANGED exceptHub

\* accept returns: the id is registered and the welcome frame is sent
Connect(c) ==
  /\ conns[c].pc = "accept"
  /\ active_connections' = active_connections \cup {c}
  /\ conns' = [conns EXCEPT ![c].pc = "send",
                            ![c].frame = [type |-> "welcome", channel |-> "", id |-> 0]]
  /\ UNCHANGED <<subscriptions, bcasts, frames, received, nbroadcasts>>
  /\ UNCHANGED exceptHub

\* send_json of a frame of the connection's own coroutine returns or raises;
\* send_personal disconnects the client when it raises; the coroutine goes
\* (back) to receive_json
SendPersonalEnd(c, sent) ==
  /\ conns[c].pc = "send"
  /\ IF sent
     THEN /\ frames' = [frames EXCEPT ![c] = Append(@, conns[c].frame)]
          /\ UNCHANGED <<active_connections, subscriptions>>
     ELSE /\ active_connections' = disconnect_connections(active_connections, c)
          /\ subscriptions' = disconnect_subscriptions(subscriptions, c)
          /\ frames' = frames
  /\ conns' = [conns EXCEPT ![c].pc = "receive", ![c].frame = NoFrame]
  /\ UNCHANGED <<bcasts, received, nbroadcasts>>
  /\ UNCHANGED exceptHub

\* receive_json returns msg: _process_message up to the next suspension
ProcessMessage(c, msg) ==
  /\ conns[c].pc = "receive"
  /\ received[c] < MaxMessages
  /\ received' = [received EXCEPT ![c] = @ + 1]
  /\ subscriptions' =
       CASE msg.type = "subscribe" /\ msg.channel # "" ->
              subscribe(subscriptions, active_connections, c, msg.channel)
         [] msg.type = "unsubscribe" /\ msg.channel # "" ->
              unsubscribe(subscriptions, c, msg.channel)
         [] OTHER -> subscriptions
  /\ conns' = IF Answer(msg) # NoFrame /\ c \in active_connections
              THEN [conns EXCEPT ![c] = [pc |-> "send", msg |-> msg, frame |-> Answer(msg)]]
              ELSE [conns EXCEPT ![c].msg = msg]
  /\ UNCHANGED <<active_connections, bcasts, frames, nbroadcasts>>
  /\ UNCHANGED exceptHub

\* receive_json raises (WebSocketDisconnect or any other error): disconnect,
\* and handle_connection returns
ReceiveRaises(c) ==
  /\ conns[c].pc = "receive"
  /\ active_connections' = disconnect_connections(active_connections, c)
  /\ subscriptions' = disconnect_subscriptions(subscriptions, c)
  /\ conns' = [conns EXCEPT ![c].pc = "closed"]
  /\ UNCHANGED <<bcasts, frames, received, nbroadcasts>>
  /\ UNCHANGED exceptHub

\* the loop of broadcast from bc on, up to the next send_json: the ids still
\* to serve are taken in the order of the set, ids without a registered
\* socket are passed over without a send
BroadcastLoop(b, bc, active) ==
  IF bc.todo \cap active = {}
  THEN bcasts' = [bcasts EXCEPT ![b] = [bc EXCEPT !.pc = "done", !.todo = {}, !.cur = "",
                                                  !.absent = @ \cup bc.todo]]
  ELSE \E c \in bc.todo \cap active, skipped \in SUBSET (bc.todo \ active) :
         bcasts' = [bcasts EXCEPT ![b] = [bc EXCEPT !.pc = "send", !.cur = c,
                                                    !.todo = @ \ ({c} \cup skipped),
                                                    !.absent = @ \cup skipped]]

\* a broadcast to every registered client, whatever the channel
ClientIdsAll(subs, active, channel) == active

\* client_ids of broadcast(message, channel) for a channel that is given
client_ids(subs, active, channel) == subs[channel]

\* the frame types that are broadcast, each on its channel
BroadcastChannel(type) == IF type = "event" THEN "events" ELSE "actions"

\* broadcast(message, channel) is called by task b: what it does to the hub
BroadcastCall(b, type) ==
  /\ bcasts[b].pc \in {"idle", "done"}
  /\ nbroadcasts < MaxBroadcasts
  /\ nbroadcasts' = nbroadcasts + 1
  /\ LET ids == client_ids(subscriptions, active_connections, BroadcastChannel(type)) IN
     BroadcastLoop(b, [IdleBroadcast EXCEPT
                         !.id = nbroadcasts + 1,
                         !.frame = [type |-> type, channel |-> "", id |-> nbroadcasts + 1],
                         !.channel = BroadcastChannel(type),
                         !.ids = ids, !.todo = ids,
                         !.subs_start = subscriptions[BroadcastChannel(type)]],
                   active_connections)
  /\ UNCHANGED <<active_connections, subscriptions, conns, frames, received>>

Broadcast(b, type) == BroadcastCall(b, type) /\ UNCHANGED exceptHub

\* the send_json of a broadcast returns or raises: what it does to the hub
BroadcastSendReturn(b, sent) ==
  /\ bcasts[b].pc = "send"
  /\ LET bc == bcasts[b]
         c == bc.cur
         active == IF sent THEN active_connections
                   ELSE disconnect_connections(active_connections, c)
     IN /\ active_connections' = active
        /\ subscriptions' = IF sent THEN subscriptions
                            ELSE disconnect_subscriptions(subscriptions, c)
        /\ frames' = IF sent THEN [frames EXCEPT ![c] = Append(@, bc.frame)] ELSE frames
        /\ BroadcastLoop(b, IF sent THEN [bc EXCEPT !.sent_count = @ + 1, !.ok = @ \cup {c}]
                            ELSE [bc EXCEPT !.failed = @ \cup {c}],
                         active)
  /\ UNCHANGED <<conns, received, nbroadcasts>>

BroadcastSendEnd(b, sent) == BroadcastSendReturn(b, sent) /\ UNCHANGED exceptHub

(***************************************************************************)
(* handle_event of main.py: the subscriber of every source.  It awaits     *)
(* broadcast_event, then process_event, whose _notify_action awaits the    *)
(* registered handler, broadcast_action, after each action.  A source      *)
(* awaits its subscriber, so its calls of handle_event follow one another. *)
(* Broadcast slot 1 is the broadcast_event call, slot 2 the                *)
(* broadcast_action call; the traversal between them is left open: an      *)
(* event leads to any number of action results.                            *)
(***************************************************************************)
\* neither the hub nor the handler
exceptHubFlow == <<coreVars, debVars, srcVars, actVars, evtVars, condVars, polVars, thrVars, regVars>>

\* a handler that starts broadcast_event without awaiting it
FireAndForget(bpc) == "process"

\* `await ws_handler.broadcast_event(event)`: process_event is reached when
\* the broadcast has returned
AwaitBroadcastEvent(bpc) == IF bpc = "done" THEN "process" ELSE "event_frame"

\* the broadcasts that have returned after a step of slot b of broadcast id
FinishedAfter(b, id) == IF bcasts'[b].pc = "done" THEN finished \cup {id} ELSE finished

\* the source calls handle_event(event): broadcast_event up to its first send
HandleEvent ==
  /\ handler.pc = "idle"
  /\ BroadcastCall(1, "event")
  /\ handler' = [pc |-> AwaitBroadcastEvent(bcasts'[1].pc), ev |-> handler.ev + 1]
  /\ blog' = Append(blog, [type |-> "event", ev |-> handler.ev + 1, after |-> finished])
  /\ finished' = FinishedAfter(1, nbroadcasts + 1)
  /\ UNCHANGED exceptHubFlow

\* a send_json of broadcast_event returns or raises
EventSendEnd(sent) ==
  /\ BroadcastSendReturn(1, sent)
  /\ handler' = IF handler.pc = "event_frame"
                THEN [handler EXCEPT !.pc = AwaitBroadcastEvent(bcasts'[1].pc)]
                ELSE handler
  /\ finished' = FinishedAfter(1, bcasts[1].id)
  /\ blog' = blog
  /\ UNCHANGED exceptHubFlow

\* process_event has run an action: _notify_action awaits broadcast_action
NotifyAction ==
  /\ handler.pc = "process"
  /\ BroadcastCall(2, "action")
  /\ handler' = [handler EXCEPT !.pc = IF bcasts'[2].pc = "done" THEN "process"
                                       ELSE "action_frame"]
  /\ blog' = Append(blog, [type |-> "action", ev |-> handler.ev, after |-> finished])
  /\ finished' = FinishedAfter(2, nbroadcasts + 1)
  /\ UNCHANGED exceptHubFlow

\* a send_json of broadcast_action returns or raises
ActionSendEnd(sent) ==
  /\ BroadcastSendReturn(2, sent)
  /\ handler' = [handler EXCEPT !.pc = IF bcasts'[2].pc = "done" THEN "process"
                                       ELSE "action_frame"]
  /\ finished' = FinishedAfter(2, bcasts[2].id)
  /\ blog' = blog
  /\ UNCHANGED exceptHubFlow

\* process_event returns, and handle_event with it
ProcessReturns ==
  /\ handler.pc = "process"
  /\ handler' = [handler EXCEPT !.pc = "idle"]
  /\ UNCHANGED <<blog, finished>>
  /\ UNCHANGED exceptFlow

(***************************************************************************)
(* SignalEvent.to_dict and SignalEvent.from_dict.  An EventType member is   *)
(* the pair of its class and its value; a datetime is seconds, microseconds *)
(* and an offset (naive or UTC); an ISO string is the sequence of the parts *)
(* isoformat writes.  data and metadata are passed by reference.            *)
(***************************************************************************)
EventTypeValues ==
  {"value_changed", "threshold_crossed", "state_changed", "detected",
   "created", "modified", "deleted", "moved"}
EventTypeMember(v) == <<"EventType", v>>
EventTypeMembers == {EventTypeMember(v) : v \in EventTypeValues}

Datetimes == [s : {0, 1}, us : {0, 5}, tz : {"naive", "utc"}]

\* datetime.isoformat(): the fraction is written only when it is not zero,
\* the offset only for an aware datetime
isoformat(dt) ==
  << [part |-> "seconds", v |-> dt.s] >>
    \o (IF dt.us # 0 THEN << [part |-> "fraction", v |-> dt.us] >> ELSE <<>>)
    \o (IF dt.tz = "utc" THEN << [part |-> "offset", v |-> 0] >> ELSE <<>>)

\* the value of the part of that name, absent when there is none
IsoPart(str, name, absent) ==
  IF \E i \in 1..Len(str) : str[i].part = name
  THEN str[CHOOSE i \in 1..Len(str) : str[i].part = name].v
  ELSE absent

\* a parse that drops the fraction
FromIsoSeconds(str) ==
  [s |-> IsoPart(str, "seconds", 0), us |-> 0,
   tz |-> IF IsoPart(str, "offset", 1) = 0 THEN "utc" ELSE "naive"]

\* datetime.fromisoformat(str)
fromisoformat(str) ==
  [s |-> IsoPart(str, "seconds", 0), us |-> IsoPart(str, "fraction", 0),
   tz |-> IF IsoPart(str, "offset", 1) = 0 THEN "utc" ELSE "naive"]

\* the events the sources build: any id, source, name, member of EventType,
\* datetime, data dict and metadata dict
SignalEvents ==
  [id : {"id1", "id2"}, source_type : SourceTypes, source_name : {"", "cpu"},
   event_type : EventTypeMembers, timestamp : Datetimes,
   data : {"dict1", "dict2"}, metadata : {"dict3", "dict4"}]

\* SignalEvent.to_dict() of an event whose event_type is a member of
\* EventType: the member's value is written.  The executor's payload
\* to_dict(ev) is this dict reduced to the keys the pipelines read.
SignalEventToDict(e) ==
  [id |-> e.id, source_type |-> e.source_type, source_name |-> e.source_name,
   event_type |-> e.event_type[2],
   timestamp |-> isoformat(e.timestamp), data |-> e.data, metadata |-> e.metadata]

\* EventType(value): the member of that value, ValueError when there is none
EventType(v) == IF v \in EventTypeValues THEN EventTypeMember(v) ELSE <<"ValueError", v>>

\* SignalEvent.from_dict(data) for a dict that has every key
from_dict(d) ==
  [id |-> d.id, source_type |-> d.source_type, source_name |-> d.source_name,
   event_type |-> EventType(d.event_type),
   timestamp |-> fromisoformat(d.timestamp), data |-> d.data, metadata |-> d.metadata]

\* a source builds an event
Emit(e) ==
  /\ event = NoEvent
  /\ event' = e
  /\ parsed' = parsed
  /\ UNCHANGED exceptEvt

\* the event is serialized and parsed back
RoundTrip ==
  /\ event # NoEvent
  /\ parsed = NoEvent
  /\ parsed' = from_dict(SignalEventToDict(event))
  /\ event' = event
  /\ UNCHANGED exceptEvt

(***************************************************************************)
(* ConditionalPolicy.should_execute.  A question is the policy's condition  *)
(* (a filter configuration: type, field, operator, value) and the value    *)
(* the event's data dict holds for cpu_percent.                            *)
(***************************************************************************)
Questions ==
  [ftype : {"", "boolean", "bogus"}, field : {<<"cpu_percent">>, <<"missing">>},
   op : {">", "==", "matches", "is_null", "bogus"}, value : {80, 95, BadRegex, NoneVal},
   cpu_percent : {50, 95, DictVal, NoneVal}]

\* `not self.condition`: the policy was built without a condition
NoCondition(q) == q.ftype = ""

\* BooleanFilter._get_nested_value on the event's data dict: the key, None
\* when the dict does not have it
ConditionField(q) == IF q.field = <<"cpu_percent">> THEN q.cpu_percent ELSE NoneVal

\* ConditionalPolicy.should_execute(action_id, context): Filter.from_config
\* raises for an unknown type and the except returns True; the filter's own
\* evaluate never raises
should_execute(q) ==
  IF NoCondition(q) THEN TRUE
  ELSE IF q.ftype \notin FILTER_TYPES THEN TRUE
  ELSE BooleanFilterResult(q, ConditionField(q))

\* should_execute is called on a policy with this condition and event
Ask(q) ==
  /\ condition = NoQuestion
  /\ condition' = q
  /\ admitted' = admitted
  /\ UNCHANGED exceptCond

\* should_execute returns
ShouldExecuteReturns ==
  /\ condition # NoQuestion
  /\ ~admitted.returned
  /\ admitted' = [returned |-> TRUE, value |-> should_execute(condition)]
  /\ condition' = condition
  /\ UNCHANGED exceptCond

(***************************************************************************)
(* create_policy.  A configuration is its type and, for a composite, the   *)
(* operator and the types of the child configurations.                     *)
(***************************************************************************)
\* the registry of policy classes
POLICY_TYPES == {"none", "debounce", "rate_limit", "cooldown", "conditional", "composite"}

ChildTypes == {"none", "cooldown", "rate_limit"}

PolicyConfigs ==
  [type : POLICY_TYPES \cup {"bogus"}, operator : {"and", "or"},
   policies : {<<>>} \cup {<<a>> : a \in ChildTypes}
                     \cup {<<a, b>> : a \in ChildTypes, b \in ChildTypes}]

\* ExecutionPolicy.from_config: an if/elif chain over the type, whose else
\* raises ValueError; the chain has no branch for "composite" and does not
\* read POLICY_TYPES
PolicyFromConfig(cfg) ==
  IF cfg.type \in from_config_types
  THEN [kind |-> "policy", policy_type |-> cfg.type]
  ELSE [kind |-> "ValueError", policy_type |-> cfg.type]

\* create_policy(config)
create_policy(cfg) == PolicyFromConfig(cfg)

\* a caller builds a configuration
Configure(cfg) ==
  /\ config = NoConfig
  /\ config' = cfg
  /\ created' = created
  /\ UNCHANGED exceptPol

\* and hands it to create_policy
CreatePolicy ==
  /\ config # NoConfig
  /\ created = NotCreated
  /\ created' = create_policy(config)
  /\ config' = config
  /\ UNCHANGED exceptPol

(***************************************************************************)
(* ThresholdMixin and the CPU/RAM source (backend/signals/base.py, cpu.py) *)
(***************************************************************************)
Bands == {<<20, 80>>, <<0, 85>>, <<50, 80>>}
Values == {0, 20, 50, 80, 85, 100}

\* a comparison that leaves the boundary value in the normal zone
ZoneOpen(band, value) ==
  IF value < band[1] THEN "low" ELSE IF value > band[2] THEN "high" ELSE "normal"

\* new_state of check_threshold: `if value <= low ... elif value >= high`
Zone(band, value) ==
  IF value <= band[1] THEN "low" ELSE IF value >= band[2] THEN "high" ELSE "normal"

\* set_threshold(name, low, high)
SetThresholds(thr, name, band) == [thr EXCEPT ![name] = band]
SetStates(sts, name) == [sts EXCEPT ![name] = "normal"]

\* self._threshold_states.get(name, "normal")
CurrentState(sts, name) == IF sts[name] = NoState THEN "normal" ELSE sts[name]

\* check_threshold(name, value): the value it returns
CheckReturn(thr, sts, name, value) ==
  IF thr[name] = NoBand THEN None
  ELSE IF Zone(thr[name], value) # CurrentState(sts, name) THEN Zone(thr[name], value)
  ELSE None

\* check_threshold(name, value): _threshold_states when it returns
CheckStates(thr, sts, name, value) ==
  IF thr[name] = NoBand THEN sts
  ELSE IF Zone(thr[name], value) # CurrentState(sts, name)
       THEN [sts EXCEPT ![name] = Zone(thr[name], value)]
  ELSE sts

SetThreshold(name, band) ==
  /\ thresholds' = SetThresholds(thresholds, name, band)
  /\ threshold_states' = SetStates(threshold_states, name)
  /\ UNCHANGED <<checked, last_metric, cpoll>>
  /\ UNCHANGED exceptThr

CheckThreshold(name, value) ==
  /\ threshold_states' = CheckStates(thresholds, threshold_states, name, value)
  /\ checked' = [called |-> TRUE, name |-> name, value |-> value,
                 band |-> thresholds[name], before |-> threshold_states[name],
                 after |-> threshold_states'[name],
                 returned |-> CheckReturn(thresholds, threshold_states, name, value)]
  /\ UNCHANGED <<thresholds, last_metric, cpoll>>
  /\ UNCHANGED exceptThr

\* config.signals: cpu_low_threshold, cpu_high_threshold, ram_high_threshold,
\* and _significant_change_threshold of the CPU source
CpuBand == <<20, 80>>
RamBand == <<0, 85>>
SignificantChange == 5

\* what psutil reports
CpuSamples == {18, 22, 50, 78, 82}
RamSamples == {50, 83, 86}

Abs(x) == IF x < 0 THEN -x ELSE x

\* CPUSignalSource.__init__: both bands set, no last values
CpuConstructed == thresholds["cpu"] # NoBand

CpuInit ==
  /\ ~CpuConstructed
  /\ thresholds' = SetThresholds(SetThresholds(thresholds, "cpu", CpuBand), "ram", RamBand)
  /\ threshold_states' = SetStates(SetStates(threshold_states, "cpu"), "ram")
  /\ last_metric' = [m \in Metrics |-> NoneVal]
  /\ UNCHANGED <<checked, cpoll>>
  /\ UNCHANGED exceptThr

\* the metrics whose `if self._last_x is None or abs(x - self._last_x) >= ...` holds
Significant(last, sample) ==
  {m \in Metrics : last[m] = NoneVal \/ Abs(sample[m] - last[m]) >= SignificantChange}

\* CPUSignalSource._poll with these samples: check_threshold is called for
\* the metrics that changed significantly, cpu first; an event is returned
\* when events_data is not empty
CpuPoll(cpu, ram) ==
  /\ CpuConstructed
  /\ LET sample == [m \in Metrics |-> IF m = "cpu" THEN cpu ELSE ram]
         sig == Significant(last_metric, sample)
         sts1 == IF "cpu" \in sig
                 THEN CheckStates(thresholds, threshold_states, "cpu", cpu)
                 ELSE threshold_states
         sts2 == IF "ram" \in sig THEN CheckStates(thresholds, sts1, "ram", ram) ELSE sts1
         crossing == \E m \in sig :
                       CheckReturn(thresholds, threshold_states, m, sample[m]) # None
     IN /\ threshold_states' = sts2
        /\ last_metric' = [m \in Metrics |-> IF m \in sig THEN sample[m] ELSE last_metric[m]]
        /\ cpoll' = [done |-> TRUE, sample |-> sample, last_before |-> last_metric,
                     zone_before |-> threshold_states, changes |-> sig,
                     event |-> IF sig = {} THEN None
                               ELSE IF crossing THEN "threshold_crossed"
                               ELSE "value_changed"]
  /\ UNCHANGED <<thresholds, checked>>
  /\ UNCHANGED exceptThr

(***************************************************************************)
(* Specifications                                                          *)
(***************************************************************************)
\* load / unload / activate only: the pipeline table and the subscription index
LoadGraphs == {"filter", "twosrc", "battery", "bad"}

NextLoad ==
  \/ \E pid \in PipelineIds, gname \in LoadGraphs : LoadPipeline(pid, gname)
  \/ \E pid \in PipelineIds : UnloadPipeline(pid)
  \/ \E pid \in PipelineIds, active \in BOOLEAN : SetPipelineActive(pid, active)

SpecLoad == Init /\ [][NextLoad]_vars

\* traversals of one pipeline
TraverseGraphs == {"filter", "diamond", "cycle"}

\* the task of the one source these graphs subscribe to
TraverseTasks == {CHOOSE t \in Tasks : SourceOf(t) = "cpu"}

NextTraverse ==
  \/ \E gname \in TraverseGraphs : LoadPipeline(1, gname)
  \/ \E t \in TraverseTasks, sample \in Samples : ProcessEvent(t, sample)
  \/ \E t \in TraverseTasks : Visit(t)
  \/ \E t \in TraverseTasks, status \in ResultStatuses : ActionReturn(t, status)

SpecTraverse == Init /\ [][NextTraverse]_vars

\* process_event calls interleaved with load, unload and set_pipeline_active
NextExec ==
  \/ \E pid \in PipelineIds : LoadPipeline(pid, "twosrc")
  \/ \E pid \in PipelineIds : UnloadPipeline(pid)
  \/ \E pid \in PipelineIds, active \in BOOLEAN : SetPipelineActive(pid, active)
  \/ \E t \in Tasks, sample \in {95} : ProcessEvent(t, sample)
  \/ \E t \in Tasks : Visit(t)
  \/ \E t \in Tasks : ActionReturn(t, "success")

Spec == Init /\ [][NextExec]_vars

\* action nodes behind a policy, with the clock
PolicyGraphs == {"cooldown", "ratelimit", "debounce"}

NextPolicy ==
  \/ \E gname \in PolicyGraphs : LoadPipeline(1, gname)
  \/ Tick
  \/ \E t \in Tasks : ProcessEvent(t, 95)
  \/ \E t \in Tasks : Visit(t)
  \/ \E t \in Tasks : ActionReturn(t, "success")

SpecPolicy == Init /\ [][NextPolicy]_vars

\* two pipelines with two policy-gated action nodes each and one source, at
\* one clock value
NextScope ==
  \/ \E pid \in PipelineIds : LoadPipeline(pid, "twoact")
  \/ \E t \in TraverseTasks : ProcessEvent(t, 95)
  \/ \E t \in TraverseTasks : Visit(t)
  \/ \E t \in TraverseTasks : ActionReturn(t, "success")

SpecScope == Init /\ [][NextScope]_vars

\* one pipeline with policy-gated actions, the events of one source and the
\* clock; the executions succeed, fail or are refused
LoadGated(pid) == pipelines[pid] = NoObj /\ LoadPipeline(pid, "gated")

NextGate ==
  \/ LoadGated(1)
  \/ Tick
  \/ \E t \in TraverseTasks : ProcessEvent(t, 95)
  \/ \E t \in TraverseTasks : Visit(t)
  \/ \E t \in TraverseTasks, status \in AllResultStatuses : ActionReturn(t, status)

SpecGate == Init /\ [][NextGate]_vars

\* two pipelines with chained actions whose executions succeed, fail or are
\* refused
\* load_pipeline of the chain graph under an id that is not loaded
LoadChain(pid) == pipelines[pid] = NoObj /\ LoadPipeline(pid, "chain")

NextFail ==
  \/ \E pid \in PipelineIds : LoadChain(pid)
  \/ \E t \in TraverseTasks : ProcessEvent(t, 95)
  \/ \E t \in TraverseTasks : Visit(t)
  \/ \E t \in TraverseTasks, status \in AllResultStatuses : ActionReturn(t, status)

SpecFail == Init /\ [][NextFail]_vars

\* traversals of a pipeline whose filters and transformer raise
NextError ==
  \/ LoadPipeline(1, "errors")
  \/ \E t \in TraverseTasks, sample \in Samples : ProcessEvent(t, sample)
  \/ \E t \in TraverseTasks : Visit(t)
  \/ \E t \in TraverseTasks : ActionReturn(t, "success")

SpecError == Init /\ [][NextError]_vars

\* loads and unloads of two cooldown pipelines around the calls of one source
NextUnload ==
  \/ \E pid \in PipelineIds : LoadPipeline(pid, "cooldown")
  \/ \E pid \in PipelineIds : UnloadPipeline(pid)
  \/ \E t \in TraverseTasks : ProcessEvent(t, 95)
  \/ \E t \in TraverseTasks : Visit(t)
  \/ \E t \in TraverseTasks : ActionReturn(t, "success")

SpecUnload == Init /\ [][NextUnload]_vars

\* one signal source with two subscribers, started and stopped concurrently
NextSource ==
  \/ \E c \in Callbacks \ NeverReturns : Subscribe(c)
  \/ Start
  \/ \E k \in StopCallers : StopBegin(k)
  \/ \E k \in StopCallers : StopResume(k)
  \/ \E i \in 1..MaxProducerTasks : ProducerStep(i)

SpecSource == Init /\ [][NextSource]_vars

\* one signal source with one subscriber, started and stopped by one caller,
\* whose _poll may raise
SubscribeFirst(c) == ptasks = <<>> /\ ~InSeq(c, subscribers) /\ Subscribe(c)

NextPollError ==
  \/ SubscribeFirst("h1")
  \/ Start
  \/ StopBegin(1)
  \/ StopResume(1)
  \/ \E i \in 1..MaxProducerTasks : ProducerStep(i)

SpecPollError == Init /\ [][NextPollError]_vars

\* one running signal source whose subscribers come and go
NextNotify ==
  \/ \E c \in Callbacks : Subscribe(c)
  \/ \E c \in Callbacks : Unsubscribe(c)
  \/ Start
  \/ \E i \in 1..MaxProducerTasks : ProducerStep(i)

SpecNotify == Init /\ [][NextNotify]_vars

\* the hub with one client, its messages and the broadcasts of two tasks
HubClients == {"c1"}

NextHub ==
  \/ \E c \in HubClients : HandleConnection(c)
  \/ \E c \in HubClients : Connect(c)
  \/ \E c \in HubClients, sent \in BOOLEAN : SendPersonalEnd(c, sent)
  \/ \E c \in HubClients, msg \in Messages : ProcessMessage(c, msg)
  \/ \E c \in HubClients : ReceiveRaises(c)
  \/ \E b \in Broadcasters, type \in {"event", "action"} : Broadcast(b, type)
  \/ \E b \in Broadcasters, sent \in BOOLEAN : BroadcastSendEnd(b, sent)

SpecHub == Init /\ [][NextHub]_vars

\* three clients, each subscribing to its one channel, and the broadcasts of
\* event and action frames by one task; sends of broadcast frames may fail
OwnChannel(c) == IF c = "c3" THEN "actions" ELSE "events"
\* the first message of a client is the subscription to its channel
SubscribeOwn(c) ==
  received[c] = 0 /\ ProcessMessage(c, [type |-> "subscribe", channel |-> OwnChannel(c)])

NextBroadcast ==
  \/ \E c \in Clients : HandleConnection(c)
  \/ \E c \in Clients : Connect(c)
  \/ \E c \in Clients : SendPersonalEnd(c, TRUE)
  \/ \E c \in Clients : SubscribeOwn(c)
  \/ \E c \in Clients : ReceiveRaises(c)
  \/ \E type \in {"event", "action"} : Broadcast(1, type)
  \/ \E sent \in BOOLEAN : BroadcastSendEnd(1, sent)

SpecBroadcast == Init /\ [][NextBroadcast]_vars

(***************************************************************************)
(* ConnectionManager with its connections told apart: active_connections   *)
(* is a dict from client_id to the WebSocket stored under it, and          *)
(* websocket_endpoint takes the client_id from the query string.           *)
(***************************************************************************)
\* websocket_endpoint(websocket, client_id) -> handle_connection -> connect,
\* up to `await websocket.accept()`
Endpoint(s, c) ==
  /\ websockets[s].pc = "new"
  /\ websockets' = [websockets EXCEPT ![s] = [pc |-> "accept", client_id |-> c]]
  /\ UNCHANGED <<registry, channels, own>>
  /\ UNCHANGED exceptReg

\* connect after the accept: `self.active_connections[client_id] = websocket`
RegisterSocket(s) ==
  /\ websockets[s].pc = "accept"
  /\ registry' = [registry EXCEPT ![websockets[s].client_id] = s]
  /\ websockets' = [websockets EXCEPT ![s].pc = "receive"]
  /\ UNCHANGED <<channels, own>>
  /\ UNCHANGED exceptReg

\* the connection sends a subscribe message: subscribe(client_id, channel)
SocketSubscribes(s, ch) ==
  /\ websockets[s].pc = "receive"
  /\ channels' = subscribe(channels, registry, websockets[s].client_id, ch)
  /\ own' = [own EXCEPT ![s] = @ \cup {ch}]
  /\ UNCHANGED <<websockets, registry>>
  /\ UNCHANGED exceptReg

\* receive_json raises WebSocketDisconnect: disconnect(client_id)
SocketDisconnects(s) ==
  /\ websockets[s].pc = "receive"
  /\ registry' = [registry EXCEPT ![websockets[s].client_id] = NoSocket]
  /\ channels' = disconnect_subscriptions(channels, websockets[s].client_id)
  /\ websockets' = [websockets EXCEPT ![s].pc = "closed"]
  /\ own' = [own EXCEPT ![s] = {}]
  /\ UNCHANGED exceptReg

NextRegistry ==
  \/ \E s \in Sockets, c \in ClientIds : Endpoint(s, c)
  \/ \E s \in Sockets : RegisterSocket(s)
  \/ \E s \in Sockets, ch \in Channels : SocketSubscribes(s, ch)
  \/ \E s \in Sockets : SocketDisconnects(s)

SpecRegistry == Init /\ [][NextRegistry]_vars

\* one client that subscribes to both channels, and the events of a source
\* going through handle_event
SubscribeTo(c, ch) == ProcessMessage(c, [type |-> "subscribe", channel |-> ch])

NextFlow ==
  \/ HandleConnection("c1")
  \/ Connect("c1")
  \/ SendPersonalEnd("c1", TRUE)
  \/ \E ch \in Channels : SubscribeTo("c1", ch)
  \/ HandleEvent
  \/ \E sent \in BOOLEAN : EventSendEnd(sent)
  \/ NotifyAction
  \/ \E sent \in BOOLEAN : ActionSendEnd(sent)
  \/ ProcessReturns

SpecFlow == Init /\ [][NextFlow]_vars

\* one event built, serialized and parsed back
NextEvent ==
  \/ \E e \in SignalEvents : Emit(e)
  \/ RoundTrip

SpecEvent == Init /\ [][NextEvent]_vars

\* a ThresholdMixin under any calls of set_threshold and check_threshold
NextThreshold ==
  \/ \E name \in Metrics, band \in Bands : SetThreshold(name, band)
  \/ \E name \in Metrics, value \in Values : CheckThreshold(name, value)

SpecThreshold == Init /\ [][NextThreshold]_vars

\* a CPU source polled with any samples
NextCpu ==
  \/ CpuInit
  \/ \E cpu \in CpuSamples, ram \in RamSamples : CpuPoll(cpu, ram)

SpecCpu == Init /\ [][NextCpu]_vars

\* one create_policy call on any configuration
NextCreate ==
  \/ \E cfg \in PolicyConfigs : Configure(cfg)
  \/ CreatePolicy

SpecCreate == Init /\ [][NextCreate]_vars

\* one should_execute call of a ConditionalPolicy
NextCondition ==
  \/ \E q \in Questions : Ask(q)
  \/ ShouldExecuteReturns

SpecCondition == Init /\ [][NextCondition]_vars

\* one safe_execute call on any action under any configuration
NextAction ==
  \/ \E c \in ActionCalls : CallAction(c)
  \/ SafeExecute

SpecAction == Init /\ [][NextAction]_vars

\* a debounced action node whose caller supplies the callback
\* load_pipeline of the debounce graph under an id that is not loaded, so that
\* an object loses its id through unload_pipeline only
LoadDebounce(pid) == pipelines[pid] = NoObj /\ LoadPipeline(pid, "debounce")

NextDebounce ==
  \/ LoadDebounce(1)
  \/ UnloadPipeline(1)
  \/ Tick
  \/ ShouldExecuteWithCallback(1)
  \/ \E i \in 1..MaxDebounceCalls : DelayedExecute(i)

SpecDebounce == Init /\ [][NextDebounce]_vars


\* the traversal specification with the scheduling of the event loop: a
\* coroutine that can resume is resumed, and safe_execute returns
SpecTerm ==
  /\ Init /\ [][NextTraverse]_vars
  /\ \A t \in Tasks : WF_vars(Visit(t))
  /\ \A t \in Tasks : WF_vars(\E status \in ResultStatuses : ActionReturn(t, status))

(***************************************************************************)
(* Properties                                                              *)
(***************************************************************************)
Range(seq) == {seq[i] : i \in 1..Len(seq)}
NoDuplicates(seq) == \A i, j \in 1..Len(seq) : i # j => seq[i] # seq[j]
Loaded(pid) == pipelines[pid] # NoObj
Running(t) == tasks[t].pc \in {"visit", "exec"}

\* C1: during one traversal of a pipeline for one event no node is visited
\* more than once, whatever the graph (cycles, converging paths).
C1_NoNodeVisitedTwice ==
  \A t \in Tasks : \A n \in NodeIds : visits[t][n] <= 1

\* C2: for every finite pipeline graph, cycles included, a process_event call
\* that has started eventually returns.
C2_ProcessEventReturns ==
  \A t \in Tasks : Running(t) ~> (tasks[t].pc = "done")

\* source nodes of graph g that declare type T
EntryNodes(g, T) ==
  {n \in Range(get_source_nodes(g)) : GetNode(g, n).source_type = T}

StartsAt(t, pid, n) ==
  {i \in 1..Len(started[t]) : started[t][i].pid = pid /\ started[t][i].node = n}

\* C3: process_event for an event of type T starts one traversal at every
\* source node declaring T in every loaded, active pipeline subscribed to T,
\* and none in a pipeline that is unloaded or inactive, nor from a source node
\* declaring another type.
C3_EntryPoints ==
  \A t \in Tasks :
    /\ \A i \in 1..Len(started[t]) :
         /\ started[t][i].loaded
         /\ started[t][i].active
         /\ started[t][i].node \in EntryNodes(GraphOf(started[t][i].obj), tasks[t].source_type)
    /\ tasks[t].pc = "done" =>
         \A pid \in stable[t] :
           \A n \in EntryNodes(GraphOf(pipelines[pid]), tasks[t].source_type) :
             Cardinality(StartsAt(t, pid, n)) = 1

\* C4: after any sequence of load_pipeline and unload_pipeline calls, for every
\* source type T, source_subscriptions[T] holds exactly the ids of the loaded
\* pipelines with a source node declaring T, each at most once.
C4_SubscriptionIndexExact ==
  \A T \in SourceTypes :
    /\ Range(Subscribed(T)) =
         {pid \in PipelineIds : Loaded(pid) /\ EntryNodes(GraphOf(pipelines[pid]), T) # {}}
    /\ NoDuplicates(Subscribed(T))

\* every node has the component of its type and every edge joins two nodes
WellFormed(g) ==
  /\ \A i \in 1..Len(g.nodes) :
       LET node == g.nodes[i] IN
       /\ node.type = "filter" => HasFilter(node)
       /\ node.type = "transformer" => HasTransformer(node)
       /\ node.type = "action" => HasAction(node) /\ HasPolicy(node)
  /\ \A i \in 1..Len(g.edges) : HasNode(g, g.edges[i][1]) /\ HasNode(g, g.edges[i][2])

\* C5: load_pipeline on a configuration with an error fails and leaves the
\* executor as it was: no pipeline with a node that lacks its component, or
\* with an edge to a missing node, is ever loaded.
C5_NoBrokenPipelineLoaded ==
  \A pid \in PipelineIds : Loaded(pid) => WellFormed(GraphOf(pipelines[pid]))


\* the executions of event ev by pipeline object o, in order
ExecsOf(ev, o) == {i \in 1..Len(execLog) : execLog[i].ev = ev /\ execLog[i].obj = o}

FilterVisit(t) ==
  /\ tasks[t].pc = "visit"
  /\ tasks'[t] # tasks[t]
  /\ HasFilter(GetNode(GraphOf(tasks[t].pobj), Head(tasks[t].queue).node))

\* the queue entries a passing visit of item adds
Forwarded(t) ==
  LET item == Head(tasks[t].queue)
      connected == get_connected_nodes(GraphOf(tasks[t].pobj), item.node)
  IN [k \in 1..Len(connected) |-> [node |-> connected[k], payload |-> item.payload]]

\* C7: when a filter node evaluates to false no successor of it is enqueued
\* from that visit, so an action reachable only through the filter is not
\* executed for the event (filter graph: s1 -> f(cpu_percent > 80) -> a); when
\* it evaluates to true its successors are enqueued with the payload unchanged.
C7_FilterPrune ==
  /\ [](\A i \in 1..Len(execLog) :
          objs[execLog[i].obj].cfg = "filter" =>
            execLog[i].data.cpu_percent > 80 /\ execLog[i].x = NoneVal)
  /\ [][\A t \in Tasks :
          FilterVisit(t) =>
            LET item == Head(tasks[t].queue)
                rest == Tail(tasks[t].queue)
                node == GetNode(GraphOf(tasks[t].pobj), item.node)
            IN IF BooleanFilterEvaluate(node, heap, item.payload)
               THEN /\ Forwarded(t) # <<>>
                    /\ tasks'[t].queue = rest \o Forwarded(t)
                    /\ heap' = heap
               ELSE IF tasks'[t].trav = tasks[t].trav
                    THEN tasks'[t].queue = rest
                    ELSE rest = <<>>]_vars

\* an event with cpu_percent = 95 went through the filter and executed the
\* action, and a call for an event with cpu_percent = 50 has returned after
\* visiting the filter and without visiting the action
C7_Witness ==
  /\ \E i \in 1..Len(execLog) :
       objs[execLog[i].obj].cfg = "filter" /\ execLog[i].data.cpu_percent = 95
  /\ \E t \in Tasks :
       /\ tasks[t].pc = "done"
       /\ heap[tasks[t].ev].cpu_percent = 50
       /\ Len(started[t]) = 1 /\ objs[started[t][1].obj].cfg = "filter"
       /\ visits[t]["f"] = 1 /\ visits[t]["a"] = 0
       /\ tasks[t].results = <<>>

\* the executions of node n of pipeline object o (one policy object, one key)
NodeExecs(o, n) == {i \in 1..Len(execLog) : execLog[i].obj = o /\ execLog[i].node = n}

\* the should_execute calls made for node n of pipeline object o
NodeReaches(o, n) == {i \in 1..Len(admitLog) : admitLog[i].obj = o /\ admitLog[i].node = n}

\* the action nodes of object o whose policy is of the given type
PolicyNodes(o, type) ==
  {n \in GraphNodeIds(GraphOf(o)) :
     HasPolicy(GetNode(GraphOf(o), n)) /\ GetNode(GraphOf(o), n).policy.type = type}

\* C8: behind a cooldown(c) policy any two executions of the action under
\* the same key are at least c seconds apart, also when the process_event
\* calls of two sources reach the node while the first execution is awaiting.
C8_CooldownGap ==
  \A o \in 1..Len(objs) : \A n \in PolicyNodes(o, "cooldown") :
    \A i, j \in NodeExecs(o, n) :
      i < j => execLog[j].at - execLog[i].at >= GetNode(GraphOf(o), n).policy.c

\* C9: behind a rate_limit(n, w) policy every rolling window (s - w, s] holds
\* at most n executions of the action under the same key, in every
\* interleaving of the process_event calls that reach the node.
C9_RateLimitWindow ==
  \A o \in 1..Len(objs) : \A n \in PolicyNodes(o, "rate_limit") :
    LET cfg == GetNode(GraphOf(o), n).policy IN
    \A s \in 0..MaxTime :
      Cardinality({i \in NodeExecs(o, n) :
                     execLog[i].at > s - cfg.w /\ execLog[i].at <= s}) <= cfg.n

\* the should_execute calls for (o, n) form a burst: consecutive calls are
\* less than d apart
Burst(o, n, d) ==
  \A i, j \in NodeReaches(o, n) :
    (i < j /\ \A k \in NodeReaches(o, n) : ~(i < k /\ k < j)) =>
      admitLog[j].at - admitLog[i].at < d

\* the last should_execute call for (o, n)
LastReach(o, n) == CHOOSE i \in NodeReaches(o, n) : \A k \in NodeReaches(o, n) : k <= i

\* C10: behind a debounce(d) policy in a loaded pipeline, a burst of events
\* reaching the node with gaps below d, once d has passed since its last
\* event and no call is running, has led to exactly one execution of the
\* action, no earlier than d after the last event and with that event's payload.
C10_DebounceOneExecution ==
  \A pid \in PipelineIds : Loaded(pid) =>
    LET o == pipelines[pid] IN
    \A n \in PolicyNodes(o, "debounce") :
      LET d == GetNode(GraphOf(o), n).policy.d IN
      ( /\ NodeReaches(o, n) # {}
        /\ Burst(o, n, d)
        /\ \A t \in Tasks : ~Running(t)
        /\ now >= admitLog[LastReach(o, n)].at + d )
      => /\ Cardinality(NodeExecs(o, n)) = 1
         /\ \A i \in NodeExecs(o, n) :
              /\ execLog[i].at >= admitLog[LastReach(o, n)].at + d
              /\ execLog[i].ev = admitLog[LastReach(o, n)].ev

\* the delayed invocations of the policy object of o that are neither
\* cancelled nor finished
LiveDelayed(o) ==
  {i \in 1..Len(dtasks) : dtasks[i].obj = o /\ dtasks[i].st # "done" /\ ~dtasks[i].cancelled}

\* C11: with a caller-supplied _execute_callback, at every moment at most one
\* delayed invocation per key is live: each should_execute cancels the
\* invocation scheduled by the previous one before scheduling its own, also
\* for the third and later calls of a burst.
C11_OneLiveDelayed ==
  \A o \in 1..Len(objs) : Cardinality(LiveDelayed(o)) <= 1

\* the step of task t is a should_execute or an on_execute for node n of object o
Acting(t, o, n) ==
  /\ tasks[t].pobj = o
  /\ tasks'[t] # tasks[t]
  /\ \/ tasks[t].pc = "visit" /\ Head(tasks[t].queue).node = n
     \/ tasks[t].pc = "exec" /\ tasks[t].cur.node = n

\* C12: policy state is scoped to one (pipeline, node) pair: a
\* should_execute or on_execute for one action node changes neither the
\* state nor the decision (at any time) of the policy of another node of the
\* same pipeline or of a node of another pipeline.
C12_PolicyScope ==
  [][\A o \in 1..Len(objs) : \A n \in GraphNodeIds(GraphOf(o)) :
       (\A t \in Tasks : ~Acting(t, o, n)) =>
         /\ objs'[o].policy[n] = objs[o].policy[n]
         /\ HasPolicy(GetNode(GraphOf(o), n)) =>
              \A tm \in 0..MaxTime :
                ShouldExecute(GetNode(GraphOf(o), n).policy, objs'[o].policy[n], tm, FALSE).admit
                  = ShouldExecute(GetNode(GraphOf(o), n).policy, objs[o].policy[n], tm, FALSE).admit]_vars

\* one event has been admitted at one clock value by all four policies (two
\* nodes in each of two pipelines), each after the record of the one before
C12_Witness ==
  /\ Len(admitLog) >= 4
  /\ \A i \in 1..4 : admitLog[i].admit /\ admitLog[i].ev = admitLog[1].ev
                     /\ admitLog[i].at = admitLog[1].at
  /\ \A i, j \in 1..4 : i # j => <<admitLog[i].obj, admitLog[i].node>> # <<admitLog[j].obj, admitLog[j].node>>
  /\ \A i \in 1..4 : objs[admitLog[i].obj].cfg = "twoact"
  /\ objs[admitLog[1].obj].policy["a"].last_execution = admitLog[1].at
  /\ objs[admitLog[1].obj].policy["b"].execution_times = <<admitLog[1].at>>

\* the step is load_pipeline(pid, ...) with the graph pid is already loaded with
ReloadSame(pid) ==
  /\ pipelines[pid] # NoObj
  /\ pipelines'[pid] # NoObj
  /\ pipelines'[pid] # pipelines[pid]
  /\ objs'[pipelines'[pid]].cfg = objs[pipelines[pid]].cfg

\* C13: load_pipeline with the same id and an identical graph is a no-op for
\* the subscription index and for policy state: the cooldown timestamps and
\* rate-limit histories of the pipeline's action nodes are the same after
\* the second load as before it.
C13_ReloadKeepsPolicyState ==
  [][\A pid \in PipelineIds :
       ReloadSame(pid) =>
         /\ source_subscriptions' = source_subscriptions
         /\ \A n \in GraphNodeIds(GraphOf(pipelines[pid])) :
              objs'[pipelines'[pid]].policy[n] = objs[pipelines[pid]].policy[n]]_vars

\* no subscription list contains pid
Unsubscribed(subs, pid) == \A T \in DOMAIN subs : ~InSeq(pid, subs[T])

\* C14: after unload_pipeline(id) returns true the pipeline table has no
\* entry for id and no subscription list contains id; no event processed
\* later starts a traversal of the unloaded pipeline; a following
\* load_pipeline(id, ...) starts with empty policy state, so its cooldown or
\* rate-limit node admits its first event; unload_pipeline on an id that is
\* not loaded returns false and changes nothing.
C14_UnloadRemoves ==
  /\ [](\A pid \in PipelineIds :
          LET r == unload_pipeline(pid) IN
          /\ pipelines[pid] # NoObj =>
               r.ret /\ r.pipelines[pid] = NoObj /\ Unsubscribed(r.source_subscriptions, pid)
          /\ pipelines[pid] = NoObj =>
               /\ ~r.ret
               /\ r.pipelines = pipelines /\ r.source_subscriptions = source_subscriptions
               /\ Unsubscribed(source_subscriptions, pid))
  /\ [](\A t \in Tasks : \A k \in 1..Len(started[t]) :
          tasks[t].pc # "done" => started[t][k].obj \notin tasks[t].dead)
  /\ [][\A pid \in PipelineIds :
          (pipelines[pid] = NoObj /\ pipelines'[pid] # NoObj) =>
            LET loaded == objs'[pipelines'[pid]]
                g == Graphs[loaded.cfg]
            IN \A n \in GraphNodeIds(g) :
                 /\ loaded.policy[n] = PolicyState0
                 /\ \A tm \in 0..MaxTime :
                      \/ ShouldExecute(GetNode(g, n).policy, loaded.policy[n], tm, FALSE).admit
                      \/ GetNode(g, n).policy.type = "debounce"]_vars

\* a cooldown pipeline executed its action, was unloaded and loaded again
\* under the same id; a call that began after the unload has started a
\* traversal in the new object only, and the new object's policy has
\* admitted its first event inside the cooldown of the old one
C14_Witness ==
  \E t \in Tasks : \E o1, o2 \in 1..Len(objs) :
    /\ o1 \in tasks[t].dead /\ o1 \in Unloaded
    /\ objs[o1].policy["a"].last_execution # NoneVal
    /\ \E pid \in PipelineIds : pipelines[pid] = o2
    /\ \E k \in 1..Len(started[t]) : started[t][k].obj = o2
    /\ \E i, j \in 1..Len(admitLog) :
         /\ admitLog[i].obj = o1 /\ admitLog[i].admit
         /\ admitLog[j].obj = o2 /\ admitLog[j].admit /\ admitLog[j].ev = tasks[t].ev
         /\ admitLog[j].at - admitLog[i].at < CooldownSeconds

\* C15: unloading a pipeline cancels every delayed debounce invocation
\* pending on its nodes: no debounce callback of a node of the pipeline is
\* invoked once unload_pipeline has returned.
C15_UnloadCancelsDebounce ==
  \A i \in 1..Len(invoked) : invoked[i].loaded

\* the producer tasks that are neither cancelled nor finished
LiveProducers == {i \in 1..Len(ptasks) : ptasks[i].st # "done" /\ ~ptasks[i].cancelled}

\* C16: after any interleaving of start() and stop() calls on one source at
\* most one live producer task exists and _task refers to it; in particular
\* a start() that runs while a stop() awaits the old task leaves no running
\* task that the source does not track.
C16_OneTrackedProducer ==
  /\ Cardinality(LiveProducers) <= 1
  /\ \A i \in LiveProducers : task = i

\* C17: once stop() has returned, no subscriber callback of the source is
\* invoked until the source is started again (no callback is invoked while
\* a stop() has returned, no start() was called since and _running is
\* False), in every interleaving of stop() with the producer loop and with
\* concurrent start() or stop() calls.
C17_NoCallbackAfterStop ==
  \A c \in Callbacks : \A k \in 1..Len(delivered[c]) : ~delivered[c][k].quiet

\* _notify_subscribers is still running for event e
Notifying(e) == \E i \in 1..Len(ptasks) : ptasks[i].st = "notifying" /\ ptasks[i].ev = e

\* the positions of delivered[c] that hold event e
DeliveriesOf(c, e) == {k \in 1..Len(delivered[c]) : delivered[c][k].ev = e}

\* C18: a callback that stays subscribed throughout an interval gets every
\* event the source emits in the interval exactly once and in emission
\* order, also when other callbacks are subscribed or unsubscribed while a
\* delivery is in progress.
C18_DeliveredOnceInOrder ==
  \A c \in Callbacks :
    since[c] # NoneVal =>
      /\ \A e \in (since[c] + 1)..polled :
           ~Notifying(e) => Cardinality(DeliveriesOf(c, e)) = 1
      /\ \A k1, k2 \in 1..Len(delivered[c]) :
           (k1 < k2 /\ delivered[c][k1].ev > since[c]) =>
             delivered[c][k1].ev < delivered[c][k2].ev

\* C19: a subscriber whose callback never completes does not stall the
\* producer: while the producer task is in the delivery to such a callback
\* it can still take its next step (go on to the other subscribers, sleep
\* and poll again).
C19_StuckSubscriberNoStall ==
  \A i \in 1..Len(ptasks) :
    (ptasks[i].st = "notifying" /\ ptasks[i].cb \in NeverReturns /\ ~ptasks[i].cancelled)
      => ENABLED ProducerStep(i)

\* the values of ActionStatus
ActionStatuses == {"success", "failure", "skipped", "pending", "permission_denied"}

\* what the call comes to when it does not raise: permission_denied without
\* the permission, failure when validate_params rejects, failure with the
\* error text when execute raises; execute is not called in the first two
ResultAsClaimed ==
  /\ result.status \in ActionStatuses
  /\ IF requires_permission(call.action_type)
        /\ (permission_type(call.action_type) \notin call.enabled)
     THEN result.status = "permission_denied" /\ ~result.executed
     ELSE IF call.validate # "valid"
     THEN result.status = "failure" /\ ~result.executed
     ELSE /\ result.executed
          /\ call.execute = "raises" =>
               result.status = "failure" /\ result.error = "execute error"

\* C20 as stated: safe_execute never raises and always returns an
\* ActionResult: permission_denied, failure on rejected parameters, failure
\* with the error text when execute raises; execute is never called when
\* the permission check or the validation fails.
C20_SafeExecuteNeverRaises ==
  result # NoResult => result.raised = "none" /\ ResultAsClaimed

\* C20, amended: safe_execute raises nothing but the CancelledError of a
\* cancellation that arrives while execute is awaited; in every other case
\* it returns an ActionResult as the claim lists them, and execute is never
\* called when the permission check or the validation fails.
C20_SafeExecuteResult ==
  result # NoResult =>
    IF result.raised = "none" THEN ResultAsClaimed
    ELSE /\ result.raised = "CancelledError"
         /\ call.execute = "cancelled"
         /\ result.executed
         /\ check_permission(call.action_type, call.enabled)
         /\ call.validate = "valid"

\* a shell action was called with shell execution disabled and came back
\* permission_denied without executing
C20_Witness ==
  /\ call.action_type = "shell"
  /\ "shell_execution" \notin call.enabled
  /\ call.validate = "valid" /\ call.execute = "success"
  /\ result.raised = "none" /\ result.status = "permission_denied" /\ ~result.executed

\* does the pipeline object o have an entry point of type T after its first k
EntryAfter(o, T, k) ==
  LET srcs == get_source_nodes(GraphOf(o)) IN
  \E j \in (k + 1)..Len(srcs) : GetNode(GraphOf(o), srcs[j]).source_type = T

\* is anything of the event left to process once the queue of tk is empty:
\* a later entry point of its pipeline, or a later pipeline of the list that
\* is loaded, active and has an entry point of the type
WorkLeft(tk) ==
  \/ EntryAfter(tk.pobj, tk.source_type, tk.sidx)
  \/ \E j \in (tk.idx + 1)..Len(Subscribed(tk.source_type)) :
       LET o == pipelines[Subscribed(tk.source_type)[j]] IN
       o # NoObj /\ objs[o].is_active /\ EntryAfter(o, tk.source_type, 0)

\* the successors of node n with the payload they are given
SuccessorItems(g, n, payload) ==
  [i \in 1..Len(get_connected_nodes(g, n)) |->
     [node |-> get_connected_nodes(g, n)[i], payload |-> payload]]

\* C21: an action execution that ends in failure or permission_denied does
\* not prune: the result is collected and published to the action handlers,
\* the node's successors join the queue and the traversal goes on with it,
\* and when the queue is empty the call goes on to the remaining entry
\* points and pipelines of the event.
C21_FailureDoesNotPrune ==
  [][\A t \in TraverseTasks :
       (tasks[t].pc = "exec" /\ tasks'[t] # tasks[t]) =>
         LET tk == tasks[t]
             nt == tasks'[t]
             q == tk.queue \o SuccessorItems(GraphOf(tk.pobj), tk.cur.node, tk.cur.payload)
         IN /\ Len(nt.results) = Len(tk.results) + 1
            /\ nt.results[Len(nt.results)].node = tk.cur.node
            /\ nt.results[Len(nt.results)].status \in AllResultStatuses
            /\ nt.published = Append(tk.published, nt.results[Len(nt.results)])
            /\ IF q # <<>>
               THEN nt.pc = "visit" /\ nt.queue = q /\ nt.trav = tk.trav
               ELSE IF WorkLeft(tk)
               THEN nt.pc = "visit" /\ nt.trav = tk.trav + 1 /\ Len(nt.queue) = 1
               ELSE nt.pc = "done"]_vars

\* a call whose action a failed and whose action b was refused in the first
\* traversal, and which has since run b from the second entry point and
\* started on the second pipeline
C21_Witness ==
  \E t \in TraverseTasks :
    /\ Len(tasks[t].results) >= 3
    /\ tasks[t].results[1] = [node |-> "a", status |-> "failure"]
    /\ tasks[t].results[2] = [node |-> "b", status |-> "permission_denied"]
    /\ tasks[t].results[3].node = "b"
    /\ tasks[t].published = tasks[t].results
    /\ tasks[t].idx = 2

\* no connect, disconnect or subscribe call is in progress: these run without
\* suspension once accept has returned, so none is in progress between two
\* steps unless a connection is still being accepted
HubQuiescent == \A c \in Clients : conns[c].pc # "accept"

\* C22: when no connect, disconnect or subscribe call is in progress, every
\* client id in a channel's subscriber set is in active_connections.
C22_SubscribersAreConnected ==
  HubQuiescent => \A ch \in Channels : subscriptions[ch] \subseteq active_connections

\* the positions in the frames of client c that hold the frame of broadcast k
FramesOf(c, k) == {i \in 1..Len(frames[c]) : frames[c][i].id = k}

\* the broadcast calls under way or finished
BroadcastsMade == {b \in Broadcasters : bcasts[b].pc # "idle"}

\* C23 as stated: a broadcast that is over (with no send having failed) has
\* sent its frame to every client that was subscribed to the channel when it
\* started, and to no other client.
C23_BroadcastReachesSubscribers ==
  \A b \in BroadcastsMade :
    (bcasts[b].pc = "done" /\ bcasts[b].failed = {}) =>
      \A c \in Clients :
        Cardinality(FramesOf(c, bcasts[b].id)) = IF c \in bcasts[b].subs_start THEN 1 ELSE 0

\* C23, amended: a broadcast sends its frame once to every client that was
\* subscribed to the channel when it started, except those that are no
\* longer registered when their turn comes and those whose send fails, and
\* to no client that was not subscribed then; a client subscribed only to
\* actions receives no event frame.
C23_BroadcastTargets ==
  /\ \A b \in BroadcastsMade :
       LET bc == bcasts[b] IN
       /\ bc.ok \subseteq bc.subs_start
       /\ \A c \in Clients : Cardinality(FramesOf(c, bc.id)) = IF c \in bc.ok THEN 1 ELSE 0
       /\ bc.pc = "done" => bc.subs_start = bc.ok \cup bc.failed \cup bc.absent
       /\ bc.absent \cap bc.ok = {}
       /\ bc.failed \cap bc.ok = {}
  /\ \A i \in 1..Len(frames["c3"]) : frames["c3"][i].type # "event"
  /\ \A c \in Clients : \A i \in 1..Len(frames[c]) :
       frames[c][i].type = "action" => OwnChannel(c) = "actions"

\* an event broadcast is over that started with c1 and c2 subscribed to events
\* and c3 registered and subscribed to actions: c1 and c2 have its frame
C23_Witness ==
  \E b \in BroadcastsMade :
    /\ bcasts[b].pc = "done"
    /\ bcasts[b].frame.type = "event"
    /\ bcasts[b].subs_start = {"c1", "c2"}
    /\ bcasts[b].ok = {"c1", "c2"}
    /\ "c3" \in subscriptions["actions"] /\ "c3" \in active_connections
    /\ Cardinality(FramesOf("c1", bcasts[b].id)) = 1
    /\ Cardinality(FramesOf("c2", bcasts[b].id)) = 1
    /\ FramesOf("c3", bcasts[b].id) = {}

\* the send of broadcast b's frame to its current client raises in this step
SendFails(b) ==
  /\ bcasts[b].pc = "send"
  /\ bcasts'[b].id = bcasts[b].id
  /\ bcasts'[b].failed # bcasts[b].failed

\* C24: when the send of a broadcast frame to a client fails, the client is
\* removed from active_connections and from every channel, nobody else is
\* removed and the loop goes on to the clients still to be served; when the
\* broadcast is over every other client of the snapshot has the frame
\* unless it had no registered socket at its turn, and sent_count is the
\* number of clients whose send succeeded.
C24_FailedSendIsolated ==
  /\ [](\A b \in BroadcastsMade :
          LET bc == bcasts[b] IN
          /\ bc.sent_count = Cardinality(bc.ok)
          /\ bc.ok = {c \in Clients : FramesOf(c, bc.id) # {}}
          /\ bc.pc = "done" => \A c \in bc.ids \ bc.failed : c \in bc.ok \/ c \in bc.absent)
  /\ [][\A b \in Broadcasters :
          SendFails(b) =>
            LET c == bcasts[b].cur IN
            /\ bcasts'[b].failed = bcasts[b].failed \cup {c}
            /\ active_connections' = active_connections \ {c}
            /\ \A ch \in Channels : subscriptions'[ch] = subscriptions[ch] \ {c}
            /\ frames' = frames
            /\ bcasts'[b].ok = bcasts[b].ok
            /\ IF bcasts[b].todo \cap active_connections' # {}
               THEN bcasts'[b].pc = "send" /\ bcasts'[b].cur \in bcasts[b].todo
               ELSE bcasts'[b].pc = "done"]_vars

\* a broadcast to c1 and c2 is over: the send to c1 failed and c1 is gone from
\* the registry and the channel, c2 has the frame, and the count is 1
C24_Witness ==
  \E b \in BroadcastsMade :
    /\ bcasts[b].pc = "done"
    /\ bcasts[b].ids = {"c1", "c2"}
    /\ bcasts[b].failed = {"c1"}
    /\ bcasts[b].ok = {"c2"}
    /\ bcasts[b].sent_count = 1
    /\ "c1" \notin active_connections
    /\ \A ch \in Channels : "c1" \notin subscriptions[ch]
    /\ FramesOf("c2", bcasts[b].id) # {}

\* client c's coroutine takes a message from receive_json in this step
Receives(c) == conns[c].pc = "receive" /\ received'[c] = received[c] + 1

\* C25: a message of a registered client whose type has no handler is
\* answered with an error frame to that client, and the client stays
\* registered with its subscriptions unchanged.
C25_UnknownTypeAnswered ==
  [][\A c \in Clients :
       (Receives(c) /\ c \in active_connections /\ conns'[c].msg.type \notin Handled) =>
         /\ conns'[c].pc = "send"
         /\ conns'[c].frame.type = "error"
         /\ active_connections' = active_connections
         /\ subscriptions' = subscriptions]_vars

\* the send of a frame of client c's own coroutine returns in this step
PersonalFrameSent(c) ==
  conns[c].pc = "send" /\ frames'[c] = Append(frames[c], conns[c].frame)

\* C26: every subscribe message of a registered client is answered with a
\* subscribed frame and every unsubscribe message with an unsubscribed frame;
\* when the subscribed frame has been sent the client is in the channel's
\* subscriber set, when the unsubscribed frame has been sent it is not.
C26_SubscribeAcknowledged ==
  [][\A c \in Clients :
       /\ (Receives(c) /\ c \in active_connections /\ conns'[c].msg.type = "subscribe") =>
            conns'[c].pc = "send" /\ conns'[c].frame.type = "subscribed"
       /\ (Receives(c) /\ c \in active_connections /\ conns'[c].msg.type = "unsubscribe") =>
            conns'[c].pc = "send" /\ conns'[c].frame.type = "unsubscribed"
       /\ (PersonalFrameSent(c) /\ conns[c].frame.type = "subscribed") =>
            c \in subscriptions'[conns[c].frame.channel]
       /\ (PersonalFrameSent(c) /\ conns[c].frame.type = "unsubscribed") =>
            c \notin subscriptions'[conns[c].frame.channel]]_vars

\* the broadcast calls that are awaiting send_json on the socket of client c
BroadcastSendsOutstanding(c) == {s \in SendsOutstanding(c) : s[1] = "broadcast"}

\* C27: at most one send is outstanding on a client socket at a time: two
\* broadcasts running concurrently never both await send_json on the same
\* socket.
C27_OneSendPerSocket ==
  \A c \in Clients : Cardinality(BroadcastSendsOutstanding(c)) <= 1

\* C28: for every SignalEvent e, from_dict(to_dict(e)) equals e in every
\* field: id, source_type, source_name, event_type, timestamp, data, metadata.
C28_RoundTrip ==
  parsed # NoEvent =>
    /\ parsed.id = event.id
    /\ parsed.source_type = event.source_type
    /\ parsed.source_name = event.source_name
    /\ parsed.event_type = event.event_type
    /\ parsed.timestamp = event.timestamp
    /\ parsed.data = event.data
    /\ parsed.metadata = event.metadata

\* a threshold_crossed event with a fractional, aware timestamp has made the
\* round trip
C28_Witness ==
  /\ event.event_type = EventTypeMember("threshold_crossed")
  /\ event.timestamp = [s |-> 1, us |-> 5, tz |-> "utc"]
  /\ parsed = event

\* the call of task t visits the node at the head of its queue in this step
Visits(t) == tasks[t].pc = "visit" /\ tasks'[t] # tasks[t]

\* C29: a visit of a filter node whose evaluation raises enqueues none of the
\* node's successors, and a visit of a transformer node whose transform raises
\* enqueues the successors with the payload it was given, unchanged; the
\* call goes on in both cases.
C29_ErrorsPruneOrPass ==
  [][\A t \in TraverseTasks :
       Visits(t) =>
         LET tk == tasks[t]
             nt == tasks'[t]
             item == Head(tk.queue)
             rest == Tail(tk.queue)
             g == GraphOf(tk.pobj)
             node == GetNode(g, item.node)
         IN /\ (HasFilter(node) /\ FilterRaises(node, heap, item.payload)) =>
                 IF rest # <<>> THEN nt.pc = "visit" /\ nt.queue = rest
                 ELSE nt.pc = "done" \/ nt.trav = tk.trav + 1
            /\ (HasTransformer(node) /\ TransformerRaises(node, heap, item.payload)) =>
                 /\ nt.pc = "visit"
                 /\ nt.queue = rest \o SuccessorItems(g, item.node, item.payload)
                 /\ heap' = heap]_vars

\* evaluating the condition hits an error: an unknown filter type, float()
\* of a value that is not a number, a pattern that does not compile
ConditionErrors(q) ==
  \/ q.ftype \notin FILTER_TYPES
  \/ /\ q.op \in OPERATORS \ UnaryOps
     /\ q.value # NoneVal /\ ConditionField(q) # NoneVal
     /\ OpRaises(q.op, ConditionField(q), q.value)

\* the configured filter evaluates true on the event data, without error
ConditionTrue(q) ==
  /\ ~ConditionErrors(q)
  /\ q.op \in OPERATORS
  /\ q.op \in UnaryOps \/ (q.value # NoneVal /\ ConditionField(q) # NoneVal)
  /\ OpFunc(q.op, ConditionField(q), q.value)

\* C30: ConditionalPolicy.should_execute returns true exactly when the
\* configured filter evaluates true on the event, and returns true whenever
\* evaluating the condition hits an error.
C30_ConditionalFailOpen ==
  (admitted.returned /\ ~NoCondition(condition)) =>
    (admitted.value <=> (ConditionErrors(condition) \/ ConditionTrue(condition)))

\* C31: create_policy turns a configuration of type composite into a
\* composite policy (one that combines its children's answers with and / or
\* and passes on_execute on to each child).
C31_CompositeMaterialized ==
  (config.type = "composite" /\ created # NotCreated) =>
    created = [kind |-> "policy", policy_type |-> "composite"]

\* the should_execute calls made on the policy object of o with a callback:
\* call i created task i and its context is the one task i would pass on
CallsOn(o) == {i \in 1..Len(dtasks) : dtasks[i].obj = o}

\* the calls on o came with every gap shorter than the delay
CallBurst(o) ==
  \A i, j \in CallsOn(o) :
    (i < j /\ \A k \in CallsOn(o) : ~(i < k /\ k < j)) =>
      dtasks[j].called_at - dtasks[i].called_at < delay_seconds(o)

\* the callback invocations made for o
InvocationsOf(o) == {k \in 1..Len(invoked) : invoked[k].obj = o}

\* C32: with a caller-supplied _execute_callback, a burst of two or more
\* should_execute calls for one key with every gap below delay_seconds, once
\* every delayed task it created has finished, has led to exactly one
\* invocation of the callback, with the context of the last call, and to no
\* invocation with the context of an earlier call.
C32_BurstInvokesLastOnce ==
  \A o \in 1..Len(objs) :
    ( /\ Cardinality(CallsOn(o)) >= 2
      /\ CallBurst(o)
      /\ \A i \in CallsOn(o) : dtasks[i].st = "done" ) =>
    /\ Cardinality(InvocationsOf(o)) = 1
    /\ \A k \in InvocationsOf(o) : \A i \in CallsOn(o) : i <= invoked[k].task

ZoneChanged(m) == Zone(thresholds[m], cpoll.sample[m]) # cpoll.zone_before[m]

\* the sample is at least the step away from the last emitted value
StepReached(m) == Abs(cpoll.sample[m] - cpoll.last_before[m]) >= SignificantChange

\* C34: a poll of the CPU/RAM source (after the first, which has no last
\* value) emits an event iff for cpu or ram the sample lies in another zone
\* than the recorded one or is at least the 5-point step away from the last
\* emitted value.
C34_EmitsOnZoneOrStep ==
  (cpoll.done /\ \A m \in Metrics : cpoll.last_before[m] # NoneVal) =>
    ((cpoll.event # None) <=> \E m \in Metrics : ZoneChanged(m) \/ StepReached(m))

\* C35: an exception raised by _poll in one iteration of the producer loop
\* does not end the loop: in that step the source stays running, no
\* subscriber is called, and the task goes to the sleep of the poll interval
\* after which the loop polls again.
C35_PollErrorKeepsLoop ==
  [][ poll_failures' # poll_failures =>
        /\ running /\ running'
        /\ delivered' = delivered
        /\ \E i \in 1..Len(ptasks) :
             /\ ptasks[i].st \in {"created", "sleeping"}
             /\ ptasks'[i] = [ptasks[i] EXCEPT !.st = "sleeping"]
             /\ \A j \in 1..Len(ptasks) : j # i => ptasks'[j] = ptasks[j] ]_vars

\* the only producer task polled, _poll raised, and a later poll of the same
\* task delivered an event to a subscriber
C35_Witness ==
  /\ Len(ptasks) = 1
  /\ \E k \in 1..Len(poll_failures) : \E c \in Callbacks : \E j \in 1..Len(delivered[c]) :
       delivered[c][j].ev > poll_failures[k]

\* the nodes reached from entry node e by a path of exactly k edges
RECURSIVE ReachIn(_, _, _)
ReachIn(g, e, k) ==
  IF k = 0 THEN {e}
  ELSE LET prev == ReachIn(g, e, k - 1)
       IN {n \in GraphNodeIds(g) :
             \E m \in prev : \E i \in 1..Len(g.edges) : g.edges[i] = <<m, n>>}

\* every node is reached by paths of one length only: its depth
Layered(g, e) ==
  \A j, k \in 0..Len(g.nodes) : j # k => ReachIn(g, e, j) \cap ReachIn(g, e, k) = {}

Depth(g, e, n) ==
  IF \E k \in 0..Len(g.nodes) : n \in ReachIn(g, e, k)
  THEN CHOOSE k \in 0..Len(g.nodes) : n \in ReachIn(g, e, k)
  ELSE -1

\* for every graph and entry node: is it layered, and the depth of each node
LayerTable ==
  [gn \in DOMAIN Graphs |->
     [e \in GraphNodeIds(Graphs[gn]) |->
        [layered |-> Layered(Graphs[gn], e),
         depth |-> [n \in GraphNodeIds(Graphs[gn]) |-> Depth(Graphs[gn], e, n)]]]]

\* the entry node of the traversal task t is in
EntryOf(t) == started[t][Len(started[t])].node

\* the successors of n: the targets of its edges, in the order of the edge
\* list, that are nodes of the graph
Successors(g, n) ==
  LET from == SelectSeq(g.edges, LAMBDA e : e[1] = n /\ HasNode(g, e[2]))
  IN [i \in 1..Len(from) |-> from[i][2]]

NodesOf(queue) == [i \in 1..Len(queue) |-> queue[i].node]

\* breadth first: the queue holds nodes of at most two consecutive depths,
\* the shallower ones first, and none shallower than the node being executed
BreadthFirst(t) ==
  LET tk == tasks[t]
      q == NodesOf(tk.queue)
  IN tk.pc \in {"visit", "exec"} =>
       LET layers == LayerTable[objs[tk.pobj].cfg][EntryOf(t)] IN
       layers.layered =>
         /\ \A i, j \in 1..Len(q) : i < j => layers.depth[q[i]] <= layers.depth[q[j]]
         /\ q # <<>> => layers.depth[q[Len(q)]] <= layers.depth[q[1]] + 1
         /\ tk.pc = "exec" => \A i \in 1..Len(q) : layers.depth[tk.cur.node] <= layers.depth[q[i]]

\* a step of the traversal of t takes the oldest entry of the queue and puts
\* the successors of the visited node, if any, behind the entries already
\* there, in edge order; a result is appended when its action has run
FifoStep(t) ==
  LET tk == tasks[t]
      nt == tasks'[t]
      g == GraphOf(tk.pobj)
  IN ( /\ tk.pc \in {"visit", "exec"} /\ nt.pc \in {"visit", "exec"}
       /\ nt # tk /\ nt.trav = tk.trav ) =>
       CASE tk.pc = "visit" /\ nt.pc = "exec" ->
              /\ nt.cur = Head(tk.queue)
              /\ nt.queue = Tail(tk.queue)
              /\ nt.results = tk.results
         [] tk.pc = "visit" /\ nt.pc = "visit" ->
              /\ NodesOf(nt.queue) \in
                   { NodesOf(Tail(tk.queue)),
                     NodesOf(Tail(tk.queue)) \o Successors(g, Head(tk.queue).node) }
              /\ nt.results = tk.results
         [] tk.pc = "exec" ->
              /\ nt.pc = "visit"
              /\ NodesOf(nt.queue) = NodesOf(tk.queue) \o Successors(g, tk.cur.node)
              /\ NodesOf(nt.results) = NodesOf(tk.results) \o <<tk.cur.node>>
         [] OTHER -> FALSE

\* C36: within one traversal the nodes are visited breadth first from the
\* entry node, the successors of each node in edge insertion order, and the
\* results are appended in the order the actions ran: the order of a
\* traversal is fixed by the graph and the answers of its nodes.
C36_BreadthFirstOrder ==
  /\ [](\A t \in Tasks : BreadthFirst(t))
  /\ [][\A t \in Tasks : FifoStep(t)]_vars

\* in the diamond both transformers have been visited before the action
\* runs for the first branch; the entry for the second branch is waiting
C36_Witness ==
  \E t \in Tasks :
    /\ tasks[t].pc = "exec"
    /\ objs[tasks[t].pobj].cfg = "diamond"
    /\ tasks[t].cur.node = "a"
    /\ NodesOf(tasks[t].queue) = <<"a">>

\* the step is a should_execute of task t that returned False
Denied(t) ==
  /\ tasks[t].pc = "visit"
  /\ Len(admitLog') = Len(admitLog) + 1
  /\ ~admitLog'[Len(admitLog')].admit
  /\ tasks'[t] # tasks[t]

\* the entries of a policy state that on_execute writes
Recorded(ps) == [last_execution |-> ps.last_execution, count |-> Len(ps.execution_times)]

\* C37: when the policy of an action node denies, the action is not
\* executed, no result is produced or published, on_execute is not called
\* (no execution is recorded in the policy state) and no successor of the
\* node is enqueued: the traversal goes on with the rest of the queue.
C37_DenialPrunes ==
  [][ \A t \in Tasks : Denied(t) =>
        LET tk == tasks[t]
            nt == tasks'[t]
            n == Head(tk.queue).node
        IN /\ execLog' = execLog
           /\ nt.pc # "exec"
           /\ nt.results = tk.results /\ nt.published = tk.published
           /\ objs'[tk.pobj].policy[n].last_execution = objs[tk.pobj].policy[n].last_execution
           /\ Len(objs'[tk.pobj].policy[n].execution_times)
                <= Len(objs[tk.pobj].policy[n].execution_times)
           /\ IF Tail(tk.queue) # <<>>
              THEN nt.queue = Tail(tk.queue)
              ELSE nt.trav # tk.trav \/ nt.pc = "done" ]_vars

\* the cooldown has just denied node a, whose successor g is not in the
\* queue: the traversal goes on with b
C37_Witness ==
  /\ admitLog # <<>>
  /\ admitLog[Len(admitLog)].node = "a" /\ ~admitLog[Len(admitLog)].admit
  /\ \E t \in Tasks : tasks[t].pc = "visit" /\ NodesOf(tasks[t].queue) = <<"b">>

\* the step is the return of the safe_execute that task t awaits
ExecutionReturns(t) == tasks[t].pc = "exec" /\ tasks'[t] # tasks[t]

\* the step records an execution in the policy state of node n of object o
Records(o, n) ==
  LET ps == objs[o].policy[n]
      nps == objs'[o].policy[n]
  IN \/ nps.last_execution # ps.last_execution
     \/ Len(nps.execution_times) > Len(ps.execution_times)

\* C38: on_execute runs exactly once for each admitted execution, when
\* safe_execute has returned and whatever the result status: the return
\* stamps the cooldown with the current time and adds one entry to the
\* rate-limit history, and no other step records anything.
C38_RecordedOncePerExecution ==
  [][ /\ \A t \in Tasks : ExecutionReturns(t) =>
           LET tk == tasks[t]
               n == tk.cur.node
               cfg == GetNode(GraphOf(tk.pobj), n).policy
               ps == objs[tk.pobj].policy[n]
               nps == objs'[tk.pobj].policy[n]
           IN /\ Len(tasks'[t].results) = Len(tk.results) + 1
              /\ cfg.type = "cooldown" => nps.last_execution = now
              /\ cfg.type = "rate_limit" =>
                   nps.execution_times = ps.execution_times \o <<now>>
      /\ \A o \in 1..Len(objs) : \A n \in NodeIds :
           Records(o, n) =>
             \E t \in Tasks : ExecutionReturns(t) /\ tasks[t].pobj = o /\ tasks[t].cur.node = n
    ]_vars

\* a refused execution behind the cooldown and a failed one behind the rate
\* limit have both been recorded
C38_Witness ==
  \E t \in Tasks :
    /\ tasks[t].pobj # NoObj
    /\ tasks[t].results = << [node |-> "a", status |-> "permission_denied"],
                             [node |-> "b", status |-> "failure"] >>
    /\ objs[tasks[t].pobj].policy["a"].last_execution # NoneVal
    /\ Len(objs[tasks[t].pobj].policy["b"].execution_times) = 1

\* the event frame and an action frame of one event, at positions i and j of
\* what client c was sent
SameEvent(c, i, j) ==
  /\ frames[c][i].type = "event" /\ frames[c][j].type = "action"
  /\ blog[frames[c][i].id].ev = blog[frames[c][j].id].ev

\* C39: the event frame of an event is broadcast before process_event runs
\* for it: the broadcast of the event frame has returned when a broadcast of
\* an action frame of that event is called, and a client that is sent both
\* gets the event frame first.
C39_EventFrameFirst ==
  /\ \A k \in 1..Len(blog) :
       blog[k].type = "action" =>
         \E j \in blog[k].after : blog[j].type = "event" /\ blog[j].ev = blog[k].ev
  /\ \A c \in Clients : \A i \in 1..Len(frames[c]) : \A j \in 1..Len(frames[c]) :
       SameEvent(c, i, j) => i < j

\* a client has been sent the event frame and an action frame of one event
C39_Witness ==
  \E c \in Clients : \E i \in 1..Len(frames[c]) : \E j \in 1..Len(frames[c]) :
    SameEvent(c, i, j)

\* WebSocket s was accepted and has not disconnected
Live(s) == websockets[s].pc = "receive"

\* C40: every accepted WebSocket stays registered and keeps its channel
\* subscriptions until its own disconnect, whatever other connections do,
\* also when two connections present the same client_id.
C40_LiveStaysRegistered ==
  \A s \in Sockets :
    Live(s) => /\ registry[websockets[s].client_id] = s
               /\ \A ch \in own[s] : websockets[s].client_id \in channels[ch]

====
